---- MODULE Spec2Model ----
(***************************************************************************)
(* Kualitee: record reconciliation, batching and evaluation orchestration. *)
(*                                                                         *)
(* The model follows src/app/page.tsx (the Home component: file upload,    *)
(* validateAndMergeData, runEvaluation), src/lib/store.ts (the zustand     *)
(* store), src/components/FileUpload.tsx (processFile),                    *)
(* src/app/api/evaluate/route.ts (the batch evaluation handler),           *)
(* src/app/api/generate-summary/route.ts (per-KPI averages) and            *)
(* src/components/ResultsDisplay.tsx (summaryStats).                       *)
(*                                                                         *)
(* Encodings.  A nullable store field is a sequence of length 0 (null) or  *)
(* 1 (the value).  A row is an ordered sequence of [k, v] pairs, in the    *)
(* insertion order of the JavaScript object.  A quotient sum / count is    *)
(* the pair [n, d] (numerator, denominator), since the averages are not    *)
(* integers.  Log lines, loading messages and terminal history are left    *)
(* out: no handler reads them.                                             *)
(***************************************************************************)
EXTENDS Integers, Sequences, FiniteSets, TLC

(***************************************************************************)
(* Bounds of the model.                                                    *)
(***************************************************************************)
\* longest uploaded file, in rows
MaxRows == 2
\* largest batch size tried (the code fixes BATCH_SIZE; the model runs it
\* for every size 1..MaxBatchSize)
MaxBatchSize == 2
\* longest record list handed to a bulk run in the batching specification
MaxRecords == 4
\* longest result list whose statistics are computed
MaxResults == 3
\* most re-evaluate commands under way at once
MaxPending == 2

(***************************************************************************)
(* Values.                                                                 *)
(***************************************************************************)
Null == <<>>
Some(v) == <<v>>
IsNull(o) == o = <<>>
Val(o) == o[1]

\* key values found in the MSID column
Msids == {"A", "B", "C"}
\* values of the other column: the empty cell and a filled one
CellValues == {"", "x"}
\* header names that occur in uploaded files
ColumnNames == {"MSID", "Msid", "text"}
\* the value of a property the object does not have
Undefined == "<undefined>"

\* String.prototype.toLowerCase on the header names
ToLowerCase(name) ==
  CASE name = "MSID" -> "msid"
    [] name = "Msid" -> "msid"
    [] name = "A" -> "a"
    [] name = "B" -> "b"
    [] name = "C" -> "c"
    [] OTHER -> name

Range(s) == {s[i] : i \in DOMAIN s}

RECURSIVE SeqsUpTo(_, _)
SeqsUpTo(S, n) ==
  IF n = 0 THEN {<<>>}
  ELSE LET shorter == SeqsUpTo(S, n - 1)
       IN shorter \cup {Append(s, x) : s \in {t \in shorter : Len(t) = n - 1}, x \in S}

\* [...new Set(s)]: the distinct elements in order of first occurrence
RECURSIVE Distinct(_)
Distinct(s) ==
  IF s = <<>> THEN <<>>
  ELSE LET init == Distinct(SubSeq(s, 1, Len(s) - 1))
           last == s[Len(s)]
       IN IF last \in Range(init) THEN init ELSE Append(init, last)

RECURSIVE Flatten(_)
Flatten(ss) == IF ss = <<>> THEN <<>> ELSE Head(ss) \o Flatten(Tail(ss))

(***************************************************************************)
(* Rows.                                                                   *)
(***************************************************************************)
\* key in row
HasKey(row, name) == \E i \in DOMAIN row : row[i].k = name
\* row[name]
Get(row, name) ==
  IF HasKey(row, name) THEN row[CHOOSE i \in DOMAIN row : row[i].k = name].v ELSE Undefined
KeyOf(row) == Get(row, "MSID")

\* a parsed row of a file with the given header
MkRow(header, keyValue, text) ==
  [i \in DOMAIN header |->
     [k |-> header[i], v |-> IF header[i] = "text" THEN text ELSE keyValue]]

Headers == {<<"MSID", "text">>, <<"text", "Msid">>, <<"text">>}

\* the rows of a file with the given header: empty cells are tried under the
\* canonical header, the other headers carry filled cells
RowsUnder(h) ==
  {MkRow(h, key, t) : key \in Msids,
                      t \in IF h = <<"MSID", "text">> THEN CellValues ELSE {"x"}}

\* the parsed contents of the files a user can upload
Files == UNION {SeqsUpTo(RowsUnder(h), MaxRows) : h \in Headers}

\* the files used where the whole flow of the page is explored: complete
\* rows under the canonical header, and one file without a key column
FlowRow(key) == MkRow(<<"MSID", "text">>, key, "x")
SmallFiles ==
  {<<>>, <<FlowRow("A")>>, <<FlowRow("A"), FlowRow("B")>>, <<FlowRow("B"), FlowRow("A")>>,
   <<MkRow(<<"text">>, "A", "x")>>}

(***************************************************************************)
(* State.                                                                  *)
(***************************************************************************)
VARIABLES
  \* the store (src/lib/store.ts)
  sourceData, targetData, mergedData, kpis, evaluationResults,
  evaluationSummary, currentPhase, isLoading, dataMismatchLog, validationError

VARIABLES
  \* the build and its environment: the batch size constant of page.tsx and
  \* whether process.env.ANTHROPIC_API_KEY is set
  BATCH_SIZE, apiKey

VARIABLES
  \* one call of runEvaluation (src/app/page.tsx): where it is suspended, the
  \* mergedData and kpis its closure captured, and its locals
  runPc, runMerged, runKpis, batches, batchIndex, allResults

VARIABLES
  \* the fetch of POST /api/evaluate and its handler
  \* (src/app/api/evaluate/route.ts): the request body on its way, the
  \* value each evaluationPromise resolved to, the Evaluator calls not yet
  \* answered, the order in which the calls were answered, and the response
  request, settled, inFlight, completionOrder, response

VARIABLES
  \* what happens beside the bulk run: the PUT /api/evaluate requests of
  \* re-evaluate commands not yet settled, the per-KPI averages of the last
  \* answer of POST /api/query, the scores of the last answer of
  \* GET /api/projects, the summaryStats of the last answer of
  \* GET /api/testsets/[id], the rows of the TestResult table, and the
  \* terminal lines added by the re-evaluate command that settled last, and
  \* what the last call of POST /api/generate-summary wrote to the console
  pendingReevals, queryStats, projectList, testSetView, testResults, reevalLines,
  summaryLog

VARIABLES
  \* the test set of a project in the database (its source rows, target rows
  \* and KPI snapshot; its results are testResults), and where the last
  \* POST /api/testsets/[id]/evaluate request is: "idle" before the first,
  \* "running", or how it was answered
  testSet, testSetPc

storeVars == <<sourceData, targetData, mergedData, kpis, evaluationResults,
               evaluationSummary, currentPhase, isLoading, dataMismatchLog,
               validationError>>
envVars == <<BATCH_SIZE, apiKey>>
sideVars == <<pendingReevals, queryStats, projectList, testSetView, testResults, reevalLines,
              summaryLog, testSet, testSetPc>>
runVars == <<runPc, runMerged, runKpis, batches, batchIndex, allResults>>
fetchVars == <<request, settled, inFlight, completionOrder, response>>

vars == <<storeVars, envVars, runVars, fetchVars, sideVars>>

\* no bulk run and no request under way
RunIdle ==
  /\ runPc = "idle"
  /\ runMerged = <<>>
  /\ runKpis = <<>>
  /\ batches = <<>>
  /\ batchIndex = 0
  /\ allResults = <<>>
  /\ request = Null
  /\ settled = Null
  /\ inFlight = {}
  /\ completionOrder = <<>>
  /\ response = Null

\* nothing asked beside the bulk run, and an empty TestResult table
SideIdle ==
  /\ pendingReevals = {}
  /\ queryStats = Null
  /\ projectList = Null
  /\ testSetView = Null
  /\ testResults = <<>>
  /\ reevalLines = <<>>
  /\ summaryLog = ""
  /\ testSet = Null
  /\ testSetPc = "idle"

\* the four empty KPI slots of the initial store
EmptyKpis == [i \in 1..4 |-> [id |-> i, configured |-> FALSE]]

StoreInit ==
  /\ sourceData = Null
  /\ targetData = Null
  /\ mergedData = Null
  /\ kpis = EmptyKpis
  /\ evaluationResults = Null
  /\ evaluationSummary = Null
  /\ currentPhase = "UPLOAD"
  /\ isLoading = FALSE
  /\ dataMismatchLog = <<>>
  /\ validationError = Null

(***************************************************************************)
(* File upload (FileUpload.processFile and the callbacks Home passes).     *)
(***************************************************************************)
Labels == {"SOURCE_INPUT", "TARGET_OUTPUT"}

\* the message with the side hard-coded
UploadMessageSourceOnly(label) == "MSID column not found in SOURCE_INPUT"

\* `MSID column not found in ${label}`
UploadMessage(label) ==
  IF label = "SOURCE_INPUT" THEN "MSID column not found in SOURCE_INPUT"
  ELSE "MSID column not found in TARGET_OUTPUT"

\* Object.keys(firstRow).find((key) => key.toLowerCase() === 'msid')
FindMsidKey(firstRow) ==
  LET hits == {i \in DOMAIN firstRow : ToLowerCase(firstRow[i].k) = "msid"}
  IN IF hits = {} THEN Null
     ELSE Some(firstRow[CHOOSE i \in hits : \A j \in hits : i <= j].k)

\* { ...row, MSID: row[msidKey] } followed by delete newRow[msidKey]
RenameKey(row, msidKey) ==
  LET spread == IF HasKey(row, "MSID")
                THEN [i \in DOMAIN row |->
                        IF row[i].k = "MSID" THEN [k |-> "MSID", v |-> Get(row, msidKey)]
                        ELSE row[i]]
                ELSE Append(row, [k |-> "MSID", v |-> Get(row, msidKey)])
  IN SelectSeq(spread, LAMBDA e : e.k # msidKey)

\* the rows processFile hands to onDataLoaded
NormalizeRows(data, msidKey) ==
  IF msidKey # "MSID" THEN [i \in DOMAIN data |-> RenameKey(data[i], msidKey)]
  ELSE data

\* handleUploadError
HandleUploadError(message) ==
  /\ validationError' = Some([type |-> "MISSING_MSID_COLUMN", message |-> message,
                              details |-> <<>>])
  /\ currentPhase' = "ERROR"

\* a file is dropped on the upload widget with the given label
ProcessFile(label, data) ==
  /\ currentPhase = "UPLOAD"
  /\ IF Len(data) > 0 /\ IsNull(FindMsidKey(data[1]))
     THEN /\ HandleUploadError(UploadMessage(label))
          /\ UNCHANGED <<sourceData, targetData>>
     ELSE LET rows == IF Len(data) > 0
                      THEN NormalizeRows(data, Val(FindMsidKey(data[1])))
                      ELSE data
          IN /\ IF label = "SOURCE_INPUT"
                THEN sourceData' = Some(rows) /\ UNCHANGED targetData
                ELSE targetData' = Some(rows) /\ UNCHANGED sourceData
             /\ UNCHANGED <<validationError, currentPhase>>
  /\ UNCHANGED <<mergedData, kpis, evaluationResults, evaluationSummary,
                 isLoading, dataMismatchLog>>
  /\ UNCHANGED <<envVars, sideVars, runVars, fetchVars>>

\* the file cannot be parsed or has an unsupported extension
ProcessFileThrows(label) ==
  /\ currentPhase = "UPLOAD"
  /\ HandleUploadError("Unsupported file format. Please use CSV or Excel files.")
  /\ UNCHANGED <<sourceData, targetData, mergedData, kpis, evaluationResults,
                 evaluationSummary, isLoading, dataMismatchLog>>
  /\ UNCHANGED <<envVars, sideVars, runVars, fetchVars>>

(***************************************************************************)
(* validateAndMergeData (src/app/page.tsx).                                *)
(***************************************************************************)
\* data.length > 0 && 'MSID' in data[0]
HasMSID(data) == Len(data) > 0 /\ HasKey(data[1], "MSID")

\* `MSID column not found in ${...} file.`
ValidateMessage(sourceHasMSID) ==
  IF ~sourceHasMSID THEN "MSID column not found in SOURCE_INPUT file."
  ELSE "MSID column not found in TARGET_OUTPUT file."

\* data.map((row) => row.MSID)
KeyColumn(data) == [i \in DOMAIN data |-> KeyOf(data[i])]

\* [...sourceMSIDs].filter((id) => !targetMSIDs.has(id))
MissingIn(fromData, otherData) ==
  SelectSeq(Distinct(KeyColumn(fromData)), LAMBDA id : id \notin Range(KeyColumn(otherData)))

\* the details with the keys missing in the source listed first
ParityDetailsTargetFirst(source, target) ==
  [i \in DOMAIN MissingIn(target, source) |->
     [msid |-> MissingIn(target, source)[i], missingIn |-> "SOURCE_INPUT"]]
  \o
  [i \in DOMAIN MissingIn(source, target) |->
     [msid |-> MissingIn(source, target)[i], missingIn |-> "TARGET_OUTPUT"]]

\* the details of the parity error: `MSID ${id}: Missing in ...`
ParityDetails(source, target) ==
  [i \in DOMAIN MissingIn(source, target) |->
     [msid |-> MissingIn(source, target)[i], missingIn |-> "TARGET_OUTPUT"]]
  \o
  [i \in DOMAIN MissingIn(target, source) |->
     [msid |-> MissingIn(target, source)[i], missingIn |-> "SOURCE_INPUT"]]

\* new Map(sourceData.map((row) => [row.MSID, row])).get(key): the last row
\* inserted under the key
SourceMapGet(source, key) ==
  LET hits == {i \in DOMAIN source : KeyOf(source[i]) = key}
  IN IF hits = {} THEN Null
     ELSE Some(source[CHOOSE i \in hits : \A j \in hits : j <= i])

\* value === '' || value === null || value === undefined
IsEmptyCell(value) == value = "" \/ value = Undefined

\* the calls when only the source row is looked at
RowMismatchesSourceOnly(row, side) ==
  LET empties == SelectSeq(row, LAMBDA e : IsEmptyCell(e.v) /\ side = "SOURCE")
  IN [i \in DOMAIN empties |-> [msid |-> KeyOf(row), field |-> <<side, empties[i].k>>]]

\* the addDataMismatch calls made for one row
RowMismatches(row, side) ==
  LET empties == SelectSeq(row, LAMBDA e : IsEmptyCell(e.v))
  IN [i \in DOMAIN empties |-> [msid |-> KeyOf(row), field |-> <<side, empties[i].k>>]]

\* the merged list built by targetData.forEach
RECURSIVE MergeRows(_, _)
MergeRows(source, target) ==
  IF target = <<>> THEN <<>>
  ELSE LET sourceRow == SourceMapGet(source, KeyOf(Head(target)))
       IN (IF IsNull(sourceRow) THEN <<>>
           ELSE <<[source |-> Val(sourceRow), target |-> Head(target)]>>)
          \o MergeRows(source, Tail(target))

\* the mismatch entries logged by targetData.forEach
RECURSIVE MergeMismatches(_, _)
MergeMismatches(source, target) ==
  IF target = <<>> THEN <<>>
  ELSE LET sourceRow == SourceMapGet(source, KeyOf(Head(target)))
       IN (IF IsNull(sourceRow) THEN <<>>
           ELSE RowMismatches(Val(sourceRow), "SOURCE")
                \o RowMismatches(Head(target), "TARGET"))
          \o MergeMismatches(source, Tail(target))

\* the [ VALIDATE & PROCEED ] button
ValidateAndMergeData ==
  /\ currentPhase = "UPLOAD"
  /\ ~IsNull(sourceData) /\ ~IsNull(targetData)
  /\ LET source == Val(sourceData)
         target == Val(targetData)
     IN IF ~HasMSID(source) \/ ~HasMSID(target)
        THEN /\ validationError' = Some([type |-> "MISSING_MSID_COLUMN",
                                         message |-> ValidateMessage(HasMSID(source)),
                                         details |-> <<>>])
             /\ currentPhase' = "ERROR"
             /\ UNCHANGED <<mergedData, dataMismatchLog>>
        ELSE IF Len(MissingIn(source, target)) > 0 \/ Len(MissingIn(target, source)) > 0
        THEN /\ validationError' = Some([type |-> "MSID_PARITY_ERROR",
                                         message |-> "MSID parity check failed. Records exist in one file but not the other.",
                                         details |-> ParityDetails(source, target)])
             /\ currentPhase' = "ERROR"
             /\ UNCHANGED <<mergedData, dataMismatchLog>>
        ELSE /\ mergedData' = Some(MergeRows(source, target))
             /\ dataMismatchLog' = dataMismatchLog \o MergeMismatches(source, target)
             /\ currentPhase' = "KPI_CONFIG"
             /\ UNCHANGED validationError
  /\ UNCHANGED <<sourceData, targetData, kpis, evaluationResults, evaluationSummary,
                 isLoading>>
  /\ UNCHANGED <<envVars, sideVars, runVars, fetchVars>>

\* ErrorScreen onDismiss
DismissError ==
  /\ ~IsNull(validationError)
  /\ validationError' = Null
  /\ currentPhase' = "UPLOAD"
  /\ UNCHANGED <<sourceData, targetData, mergedData, kpis, evaluationResults,
                 evaluationSummary, isLoading, dataMismatchLog>>
  /\ UNCHANGED <<envVars, sideVars, runVars, fetchVars>>

(***************************************************************************)
(* The matcher on its own: every pair of files of Files through the two    *)
(* upload widgets (each widget filled once), then validateAndMergeData.    *)
(***************************************************************************)
NextMatch ==
  \/ \E data \in Files : IsNull(sourceData) /\ ProcessFile("SOURCE_INPUT", data)
  \/ \E data \in Files : IsNull(targetData) /\ ProcessFile("TARGET_OUTPUT", data)
  \/ ValidateAndMergeData
  \/ DismissError

InitMatch ==
  /\ StoreInit
  /\ RunIdle
  /\ SideIdle
  /\ BATCH_SIZE = MaxBatchSize
  /\ apiKey = TRUE

SpecMatch == InitMatch /\ [][NextMatch]_vars

(***************************************************************************)
(* Claims about the matcher.                                               *)
(***************************************************************************)
KeySet(data) == {KeyOf(data[i]) : i \in DOMAIN data}
KeyParity(source, target) == KeySet(source) = KeySet(target)
ErrorType == IF IsNull(validationError) THEN "none" ELSE Val(validationError).type

\* C7: when every key of the source occurs in the target and vice versa,
\* validateAndMergeData succeeds, the joined list is as long as the target
\* rows and every joined pair has equal keys.
C7_JoinCompleteness ==
  [][(ValidateAndMergeData /\ KeyParity(Val(sourceData), Val(targetData)))
       => /\ currentPhase' = "KPI_CONFIG"
          /\ ~IsNull(mergedData')
          /\ Len(Val(mergedData')) = Len(Val(targetData))
          /\ \A i \in DOMAIN Val(mergedData') :
               KeyOf(Val(mergedData')[i].source) = KeyOf(Val(mergedData')[i].target)]_vars

\* C8: when a key of one side is absent from the other, validateAndMergeData
\* fails with the parity error, whose details list every such key with the
\* side it is missing from; mergedData is not set and the phase does not
\* become KPI_CONFIG.
C8_ParityDetection ==
  [][(ValidateAndMergeData /\ ~KeyParity(Val(sourceData), Val(targetData)))
       => /\ ErrorType' = "MSID_PARITY_ERROR"
          /\ Range(Val(validationError').details) =
               {[msid |-> id, missingIn |-> "TARGET_OUTPUT"] :
                  id \in KeySet(Val(sourceData)) \ KeySet(Val(targetData))}
               \cup
               {[msid |-> id, missingIn |-> "SOURCE_INPUT"] :
                  id \in KeySet(Val(targetData)) \ KeySet(Val(sourceData))}
          /\ mergedData' = mergedData
          /\ IsNull(mergedData')
          /\ currentPhase' = "ERROR"]_vars

\* the keys of both sides by first occurrence: the source keys in order,
\* then the target keys not seen before, in order
UnionOrder(source, target) == Distinct(KeyColumn(source) \o KeyColumn(target))

\* the keys that are on one side only, in the order of UnionOrder
OffendingKeys(source, target) ==
  SelectSeq(UnionOrder(source, target),
            LAMBDA id : id \notin KeySet(source) \cap KeySet(target))

\* C21: the details of a parity error list every offending key once, in the
\* order of first occurrence in the union of both sides (source keys in
\* order, then the target keys not seen before), each tagged with the side
\* it is missing from.
C21_PayloadOrder ==
  [][(ValidateAndMergeData /\ ErrorType' = "MSID_PARITY_ERROR")
       => LET details == Val(validationError').details
              source == Val(sourceData)
              target == Val(targetData)
          IN /\ [i \in DOMAIN details |-> details[i].msid] = OffendingKeys(source, target)
             /\ \A i \in DOMAIN details :
                  details[i].missingIn =
                    IF details[i].msid \in KeySet(source) THEN "TARGET_OUTPUT"
                    ELSE "SOURCE_INPUT"]_vars

\* a parity error over source keys A, B and target keys C, A: B is
\* listed before C
C21_Witness ==
  /\ ErrorType = "MSID_PARITY_ERROR"
  /\ KeyColumn(Val(sourceData)) = <<"A", "B">>
  /\ KeyColumn(Val(targetData)) = <<"C", "A">>
  /\ Val(validationError).details =
       <<[msid |-> "B", missingIn |-> "TARGET_OUTPUT"],
         [msid |-> "C", missingIn |-> "SOURCE_INPUT"]>>

\* a set that is empty, or whose first row has the MSID column
EmptyOrKeyed(data) == Len(data) = 0 \/ HasKey(data[1], "MSID")

\* C22: an empty row set is not checked for the key column: when one of
\* the two sets is empty and the other is empty too or has the key column,
\* validateAndMergeData does not fail with MISSING_MSID_COLUMN.
C22_EmptySetSkipsKeyCheck ==
  [][(/\ ValidateAndMergeData
      /\ Len(Val(sourceData)) = 0 \/ Len(Val(targetData)) = 0
      /\ EmptyOrKeyed(Val(sourceData)) /\ EmptyOrKeyed(Val(targetData)))
       => ErrorType' # "MISSING_MSID_COLUMN"]_vars

\* the row of one side of a joined record
SideRow(record, side) == IF side = "SOURCE" THEN record.source ELSE record.target

\* the joined records in which the entry's side has the entry's field empty
RecordsWithEmpty(merged, entry) ==
  {i \in DOMAIN merged :
     LET row == SideRow(merged[i], entry.field[1])
     IN /\ KeyOf(row) = entry.msid
        /\ HasKey(row, entry.field[2])
        /\ IsEmptyCell(Get(row, entry.field[2]))}

\* every entry that could be recorded for the joined records
PossibleEntries(merged) ==
  {[msid |-> KeyOf(SideRow(merged[i], side)), field |-> <<side, name>>] :
     i \in DOMAIN merged, side \in {"SOURCE", "TARGET"}, name \in ColumnNames}

\* how often an entry occurs in a log
TimesLogged(log, entry) == Cardinality({i \in DOMAIN log : log[i] = entry})

FilesWithoutKey ==
  {f \in Files : Len(f) > 0 /\ \A i \in DOMAIN f[1] : ToLowerCase(f[1][i].k) # "msid"}

\* the messages that name a side
MessagesNaming(label) ==
  IF label = "SOURCE_INPUT"
  THEN {"MSID column not found in SOURCE_INPUT", "MSID column not found in SOURCE_INPUT file."}
  ELSE {"MSID column not found in TARGET_OUTPUT", "MSID column not found in TARGET_OUTPUT file."}

StoredOf(label) == IF label = "SOURCE_INPUT" THEN sourceData ELSE targetData

\* C9: a non-empty dataset whose first row has no MSID column (in any letter
\* case) raises MISSING_MSID_COLUMN with a message that names the side the
\* dataset was uploaded to, and is never stored; a missing-column error
\* raised by validateAndMergeData names a side whose stored rows have no
\* MSID column in their first row.
C9_MissingKeyColumn ==
  [][/\ \A label \in Labels : \A data \in FilesWithoutKey :
          ProcessFile(label, data)
            => /\ ErrorType' = "MISSING_MSID_COLUMN"
               /\ Val(validationError').message \in MessagesNaming(label)
               /\ currentPhase' = "ERROR"
               /\ StoredOf(label)' = StoredOf(label)
     /\ \A label \in Labels :
          (~IsNull(StoredOf(label)') /\ Len(Val(StoredOf(label)')) > 0)
            => HasKey(Val(StoredOf(label)')[1], "MSID")
     /\ \A label \in Labels :
          (ValidateAndMergeData /\ ErrorType' = "MISSING_MSID_COLUMN"
             /\ Val(validationError').message \in MessagesNaming(label))
            => ~(Len(Val(StoredOf(label))) > 0 /\ HasKey(Val(StoredOf(label))[1], "MSID"))]_vars

\* witness of C9: only the target file lacks the column, and the error
\* names TARGET_OUTPUT
C9_Witness ==
  /\ currentPhase = "ERROR"
  /\ ErrorType = "MISSING_MSID_COLUMN"
  /\ Val(validationError).message \in MessagesNaming("TARGET_OUTPUT")
  /\ ~IsNull(sourceData) /\ Len(Val(sourceData)) > 0
  /\ IsNull(targetData)

(***************************************************************************)
(* Batching (the for loop over mergedData in runEvaluation).               *)
(***************************************************************************)
Min(a, b) == IF a <= b THEN a ELSE b

\* the loop with slice(i, i + size + 1): every batch takes one record more
RECURSIVE CreateBatchesOverlapping(_, _, _)
CreateBatchesOverlapping(data, size, i) ==
  IF i < Len(data)
  THEN <<SubSeq(data, i + 1, Min(i + size + 1, Len(data)))>>
       \o CreateBatchesOverlapping(data, size, i + size)
  ELSE <<>>

\* for (let i = 0; i < data.length; i += size) batches.push(data.slice(i, i + size))
RECURSIVE CreateBatchesFrom(_, _, _)
CreateBatchesFrom(data, size, i) ==
  IF i < Len(data)
  THEN <<SubSeq(data, i + 1, Min(i + size, Len(data)))>> \o CreateBatchesFrom(data, size, i + size)
  ELSE <<>>

\* the batches of one run, stepping by size + 1
CreateBatchesSkipping(data, size) ==
  LET RECURSIVE From(_)
      From(i) == IF i < Len(data)
                 THEN <<SubSeq(data, i + 1, Min(i + size, Len(data)))>> \o From(i + size + 1)
                 ELSE <<>>
  IN From(0)

\* the batches of one run
CreateBatches(data, size) == CreateBatchesFrom(data, size, 0)

(***************************************************************************)
(* The Evaluator and POST /api/evaluate (src/app/api/evaluate/route.ts).   *)
(***************************************************************************)
\* the scores the Evaluator hands out in the model, the same for every KPI
\* of one answer
EvaluatorScores == {2, 5}

\* kpis.map((kpi) => ({ kpiId: kpi.id, score: 0, explanation: 'Evaluation failed' }))
FallbackScores(kpiList) ==
  [i \in DOMAIN kpiList |->
     [kpiId |-> kpiList[i].id, score |-> 0, explanation |-> "Evaluation failed"]]

\* a score list as the prompt asks for it: one entry per KPI
UniformScores(kpiList, v) ==
  [i \in DOMAIN kpiList |->
     [kpiId |-> kpiList[i].id, score |-> v, explanation |-> "brief explanation"]]

\* what one anthropic.messages.create call can come back with: it throws,
\* its text holds no {...}, the {...} is not JSON, or the JSON parses
Answers(kpiList) ==
  {[kind |-> k, scores |-> <<>>] : k \in {"throws", "no_json", "bad_json"}}
  \cup {[kind |-> "json", scores |-> UniformScores(kpiList, v)] : v \in EvaluatorScores}

\* the value of the promise when the catch block returns no scores
EvaluationOfNoFallback(msid, kpiList, answer) ==
  IF answer.kind = "json"
  THEN [msid |-> msid, scores |-> answer.scores]
  ELSE [msid |-> msid, scores |-> <<>>]

\* the value one evaluationPromise resolves to
EvaluationOf(msid, kpiList, answer) ==
  IF answer.kind = "json"
  THEN [msid |-> msid, scores |-> answer.scores]
  ELSE [msid |-> msid, scores |-> FallbackScores(kpiList)]

\* the results in the order the calls were answered
GatherInCompletionOrder(slots, order) ==
  [p \in DOMAIN order |-> Val(slots[order[p]])]

\* await Promise.all(evaluationPromises): the results by position
GatherResults(slots, order) ==
  [j \in DOMAIN slots |-> Val(slots[j])]

\* every promise of the batch has resolved
AllSettled(slots) == \A j \in DOMAIN slots : ~IsNull(slots[j])

\* the handler starts: demo mode answers at once, otherwise one Evaluator
\* call per record is issued
EvaluateStart ==
  /\ ~IsNull(request) /\ IsNull(settled) /\ IsNull(response)
  /\ LET body == Val(request)
     IN IF ~apiKey
        THEN /\ \E demo \in [DOMAIN body.batch -> EvaluatorScores] :
                  response' = Some([ok |-> TRUE,
                                    results |-> [j \in DOMAIN body.batch |->
                                       [msid |-> KeyOf(body.batch[j].source),
                                        scores |-> UniformScores(body.kpis, demo[j])]]])
             /\ UNCHANGED <<settled, inFlight, completionOrder>>
        ELSE /\ settled' = Some([j \in DOMAIN body.batch |-> Null])
             /\ inFlight' = inFlight \cup {[batchNo |-> body.batchNo, slot |-> j] :
                                             j \in DOMAIN body.batch}
             /\ completionOrder' = <<>>
             /\ UNCHANGED response
  /\ UNCHANGED <<request, storeVars, envVars, sideVars, runVars>>

\* one Evaluator call is answered, and its promise resolves
EvaluatorAnswers(call, answer) ==
  /\ call \in inFlight
  /\ inFlight' = inFlight \ {call}
  /\ IF ~IsNull(request) /\ ~IsNull(settled) /\ Val(request).batchNo = call.batchNo
     THEN LET body == Val(request)
              msid == KeyOf(body.batch[call.slot].source)
          IN /\ settled' = Some([Val(settled) EXCEPT
                                   ![call.slot] = Some(EvaluationOf(msid, body.kpis, answer))])
             /\ completionOrder' = Append(completionOrder, call.slot)
     ELSE UNCHANGED <<settled, completionOrder>>
  /\ UNCHANGED <<request, response, storeVars, envVars, sideVars, runVars>>

\* Promise.all resolves and the handler returns NextResponse.json({ results })
EvaluateRespond ==
  /\ ~IsNull(settled) /\ IsNull(response)
  /\ AllSettled(Val(settled))
  /\ response' = Some([ok |-> TRUE, results |-> GatherResults(Val(settled), completionOrder)])
  /\ UNCHANGED <<request, settled, inFlight, completionOrder, storeVars, envVars, sideVars, runVars>>

\* the fetch rejects or comes back with a status that is not OK: the request
\* never reaches the handler, or the response is lost on its way back
BatchRequestFails ==
  /\ ~IsNull(request)
  /\ \/ IsNull(settled) /\ IsNull(response)
     \/ ~IsNull(response) /\ Val(response).ok
  /\ response' = Some([ok |-> FALSE, results |-> <<>>])
  /\ UNCHANGED <<request, settled, inFlight, completionOrder, storeVars, envVars, sideVars, runVars>>

(***************************************************************************)
(* POST /api/generate-summary (src/app/api/generate-summary/route.ts).     *)
(***************************************************************************)
RECURSIVE SumSeq(_)
SumSeq(s) == IF s = <<>> THEN 0 ELSE Head(s) + SumSeq(Tail(s))

\* r.scores.find((s) => s.kpiId === kpi.id)?.score || 0
ScoreFound(result, kpiId) ==
  LET hits == {i \in DOMAIN result.scores : result.scores[i].kpiId = kpiId}
  IN IF hits = {} THEN 0
     ELSE result.scores[CHOOSE i \in hits : \A j \in hits : i <= j].score

\* the filter that keeps every score, failed ones included
KeepAll(scores) == scores

\* .filter((s) => s > 0)
KeepValid(scores) == SelectSeq(scores, LAMBDA sc : sc > 0)

\* scores.length > 0 ? scores.reduce((a, b) => a + b, 0) / scores.length : 0
Quotient(scores) ==
  IF Len(scores) > 0 THEN [n |-> SumSeq(scores), d |-> Len(scores)]
  ELSE [n |-> 0, d |-> 1]

\* the summaries array of the handler, shortExplanation left empty
Summaries(results, kpiList) ==
  [k \in DOMAIN kpiList |->
     [kpiId |-> kpiList[k].id,
      averageScore |->
        Quotient(KeepValid([i \in DOMAIN results |-> ScoreFound(results[i], kpiList[k].id)]))]]

(***************************************************************************)
(* ResultsDisplay.summaryStats (src/components/ResultsDisplay.tsx).        *)
(***************************************************************************)
\* r.scores.filter((s) => s.kpiId === kpi.id) mapped to the score
ScoresOfKpi(result, kpiId) ==
  LET entries == SelectSeq(result.scores, LAMBDA e : e.kpiId = kpiId)
  IN [i \in DOMAIN entries |-> entries[i].score]

\* the scores in the order they came
Unsorted(scores) == scores

\* [...scores].sort((a, b) => a - b)
RECURSIVE SortAsc(_)
SortAsc(scores) ==
  IF scores = <<>> THEN <<>>
  ELSE LET rest == SortAsc(Tail(scores))
           x == Head(scores)
       IN SelectSeq(rest, LAMBDA y : y < x) \o <<x>> \o SelectSeq(rest, LAMBDA y : y >= x)

\* sorted.length % 2 !== 0 ? sorted[mid] : (sorted[mid - 1] + sorted[mid]) / 2
\* with mid = Math.floor(sorted.length / 2), on a list that is not empty
MedianOf(sorted) ==
  LET mid == Len(sorted) \div 2
  IN IF Len(sorted) % 2 # 0 THEN [n |-> sorted[mid + 1], d |-> 1]
     ELSE [n |-> sorted[mid] + sorted[mid + 1], d |-> 2]

\* summaryStats for the KPIs of the store
SummaryStats(results, kpiList) ==
  IF IsNull(results) \/ Len(Val(results)) = 0 THEN <<>>
  ELSE [k \in DOMAIN kpiList |->
          LET scores == KeepValid(Flatten([i \in DOMAIN Val(results) |->
                                             ScoresOfKpi(Val(results)[i], kpiList[k].id)]))
          IN IF Len(scores) = 0
             THEN [kpiId |-> kpiList[k].id, mean |-> [n |-> 0, d |-> 1],
                   median |-> [n |-> 0, d |-> 1], count |-> 0]
             ELSE [kpiId |-> kpiList[k].id,
                   mean |-> Quotient(scores),
                   median |-> MedianOf(SortAsc(scores)),
                   count |-> Len(scores)]]

(***************************************************************************)
(* runEvaluation (src/app/page.tsx).                                       *)
(***************************************************************************)
\* how many KPIs the wizard is left with in the model: one (the rest
\* skipped) or all four
KpiCounts == {1, 4}

\* the body of the fetch for batch number b
BatchRequest(allBatches, b, kpiList) ==
  Some([batchNo |-> b, batch |-> allBatches[b], kpis |-> kpiList])

\* the KPI wizard ends with the first n KPIs configured (confirmed on the
\* last one, or skipped after n of them, which stores only those n) and calls
\* onComplete, the runEvaluation of the last render: it runs up to its
\* first await.  One bulk run at a time is followed.
RunEvaluation(n) ==
  /\ currentPhase = "KPI_CONFIG"
  /\ runPc = "idle"
  /\ LET seen == [i \in 1..4 |-> [id |-> i, configured |-> i <= n]]
     IN /\ kpis' = IF n = 4 THEN seen ELSE SubSeq(seen, 1, n)
        /\ IF IsNull(mergedData) \/ Len(Val(mergedData)) = 0
           THEN UNCHANGED <<currentPhase, isLoading, evaluationResults, runVars, request>>
           ELSE LET made == CreateBatches(Val(mergedData), BATCH_SIZE)
                IN /\ currentPhase' = "EVALUATING"
                   /\ isLoading' = TRUE
                   /\ runMerged' = Val(mergedData)
                   /\ runKpis' = seen
                   /\ batches' = made
                   /\ allResults' = <<>>
                   /\ IF Len(made) > 0
                      THEN /\ batchIndex' = 1
                           /\ request' = BatchRequest(made, 1, seen)
                           /\ runPc' = "batch"
                           /\ UNCHANGED evaluationResults
                      ELSE /\ batchIndex' = 0
                           /\ request' = Null
                           /\ runPc' = "summary"
                           /\ evaluationResults' = Some(<<>>)
  /\ UNCHANGED <<sourceData, targetData, mergedData, evaluationSummary,
                 dataMismatchLog, validationError>>
  /\ UNCHANGED <<settled, inFlight, completionOrder, response, envVars, sideVars>>

\* the awaited fetch of the current batch settles: the results are pushed,
\* or the catch block logs the failure; then the next batch is fetched, or
\* the results are stored and the summary is requested
BatchSettles ==
  /\ runPc = "batch"
  /\ ~IsNull(response)
  /\ LET pushed == IF Val(response).ok THEN allResults \o Val(response).results
                   ELSE allResults
     IN /\ allResults' = pushed
        /\ IF batchIndex < Len(batches)
           THEN /\ batchIndex' = batchIndex + 1
                /\ request' = BatchRequest(batches, batchIndex + 1, runKpis)
                /\ UNCHANGED <<runPc, evaluationResults>>
           ELSE /\ runPc' = "summary"
                /\ request' = Null
                /\ evaluationResults' = Some(pushed)
                /\ UNCHANGED batchIndex
  /\ response' = Null
  /\ settled' = Null
  /\ completionOrder' = <<>>
  /\ isLoading' = TRUE
  /\ UNCHANGED <<sourceData, targetData, mergedData, kpis, evaluationSummary,
                 currentPhase, dataMismatchLog, validationError>>
  /\ UNCHANGED <<runMerged, runKpis, batches, inFlight, envVars, sideVars>>

\* the fetch of /api/generate-summary settles (ok: the summaries are
\* stored); the run ends in RESULTS
SummarySettles(ok) ==
  /\ runPc = "summary"
  /\ evaluationSummary' = IF ok THEN Some(Summaries(allResults, runKpis))
                          ELSE evaluationSummary
  /\ isLoading' = FALSE
  /\ currentPhase' = "RESULTS"
  /\ runPc' = "idle"
  /\ runMerged' = <<>>
  /\ runKpis' = <<>>
  /\ batches' = <<>>
  /\ batchIndex' = 0
  /\ allResults' = <<>>
  /\ UNCHANGED <<sourceData, targetData, mergedData, kpis, evaluationResults,
                 dataMismatchLog, validationError>>
  /\ UNCHANGED <<fetchVars, envVars, sideVars>>

\* clearData of the store
ClearData ==
  /\ sourceData' = Null
  /\ targetData' = Null
  /\ mergedData' = Null
  /\ evaluationResults' = Null
  /\ evaluationSummary' = Null
  /\ dataMismatchLog' = <<>>
  /\ kpis' = EmptyKpis

\* the [ RESET ] button
HandleReset ==
  /\ ClearData
  /\ currentPhase' = "UPLOAD"
  /\ UNCHANGED <<isLoading, validationError, envVars, sideVars, runVars, fetchVars>>

\* the terminal command restart
Restart ==
  /\ currentPhase = "RESULTS"
  /\ ClearData
  /\ currentPhase' = "UPLOAD"
  /\ UNCHANGED <<isLoading, validationError, envVars, sideVars, runVars, fetchVars>>

(***************************************************************************)
(* The whole flow of the page.                                             *)
(***************************************************************************)
\* the build is tried with the smallest and the largest batch size
Init ==
  /\ StoreInit
  /\ RunIdle
  /\ SideIdle
  /\ BATCH_SIZE \in {1, MaxBatchSize}
  /\ apiKey \in BOOLEAN

Next ==
  \/ \E label \in Labels, data \in SmallFiles : ProcessFile(label, data)
  \/ \E label \in Labels : ProcessFileThrows(label)
  \/ ValidateAndMergeData
  \/ DismissError
  \/ \E n \in KpiCounts : RunEvaluation(n)
  \/ EvaluateStart
  \/ \E call \in inFlight : \E answer \in Answers(Val(request).kpis) : EvaluatorAnswers(call, answer)
  \/ EvaluateRespond
  \/ BatchRequestFails
  \/ BatchSettles
  \/ \E ok \in BOOLEAN : SummarySettles(ok)
  \/ HandleReset
  \/ Restart

Spec == Init /\ [][Next]_vars

(***************************************************************************)
(* Batching on its own: runEvaluation started on every joined list of up   *)
(* to MaxRecords records, as validateAndMergeData leaves it.               *)
(***************************************************************************)
RowsOf(keys) == [i \in DOMAIN keys |-> FlowRow(keys[i])]

InitPlan ==
  /\ \E keys \in SeqsUpTo(Msids, MaxRecords) \ {<<>>} :
       /\ sourceData = Some(RowsOf(Distinct(keys)))
       /\ targetData = Some(RowsOf(keys))
       /\ mergedData = Some(MergeRows(RowsOf(Distinct(keys)), RowsOf(keys)))
  /\ kpis = EmptyKpis
  /\ evaluationResults = Null
  /\ evaluationSummary = Null
  /\ currentPhase = "KPI_CONFIG"
  /\ isLoading = FALSE
  /\ dataMismatchLog = <<>>
  /\ validationError = Null
  /\ RunIdle
  /\ SideIdle
  /\ BATCH_SIZE \in 1..MaxBatchSize
  /\ apiKey = TRUE

NextPlan == \E n \in KpiCounts : RunEvaluation(n)

SpecPlan == InitPlan /\ [][NextPlan]_vars

(***************************************************************************)
(* The summary on its own: runEvaluation waiting for /api/generate-summary *)
(* with every result list of up to MaxResults results.                     *)
(***************************************************************************)
\* one result: KPI 1 and KPI 2 scored (0 is a failed evaluation), KPI 3
\* failed, no entry for KPI 4
StatResult(msid, a, b) ==
  [msid |-> msid,
   scores |-> <<[kpiId |-> 1, score |-> a, explanation |-> "brief explanation"],
                [kpiId |-> 2, score |-> b, explanation |-> "brief explanation"],
                [kpiId |-> 3, score |-> 0, explanation |-> "Evaluation failed"]>>]

StatResults == {StatResult("A", a, b) : a \in 0..5, b \in {0, 3}}

InitStats ==
  /\ \E results \in SeqsUpTo(StatResults, MaxResults) \ {<<>>} :
       /\ allResults = results
       /\ evaluationResults = Some(results)
       /\ runMerged = [i \in DOMAIN results |-> [source |-> FlowRow("A"), target |-> FlowRow("A")]]
       /\ mergedData = Some(runMerged)
  /\ sourceData = Some(<<FlowRow("A")>>)
  /\ targetData = Some([i \in DOMAIN runMerged |-> FlowRow("A")])
  /\ kpis = [i \in 1..4 |-> [id |-> i, configured |-> TRUE]]
  /\ runKpis = kpis
  /\ evaluationSummary = Null
  /\ currentPhase = "EVALUATING"
  /\ isLoading = TRUE
  /\ dataMismatchLog = <<>>
  /\ validationError = Null
  /\ runPc = "summary"
  /\ batches = <<runMerged>>
  /\ batchIndex = 1
  /\ request = Null
  /\ settled = Null
  /\ inFlight = {}
  /\ completionOrder = <<>>
  /\ response = Null
  /\ SideIdle
  /\ BATCH_SIZE = MaxResults
  /\ apiKey = TRUE

NextStats == \E ok \in BOOLEAN : SummarySettles(ok)

SpecStats == InitStats /\ [][NextStats]_vars

(***************************************************************************)
(* Claims about the bulk run.                                              *)
(***************************************************************************)
MsidsOf(results) == [i \in DOMAIN results |-> results[i].msid]
KeysOfRecords(records) == [i \in DOMAIN records |-> KeyOf(records[i].source)]

\* a result made of one failed entry per requested KPI
IsFallback(result, kpiList) ==
  /\ Len(result.scores) = Len(kpiList)
  /\ \A i \in DOMAIN kpiList :
       /\ result.scores[i].kpiId = kpiList[i].id
       /\ result.scores[i].score = 0
       /\ result.scores[i].explanation = "Evaluation failed"

\* C1: when the batch loop of a bulk run is over, allResults holds exactly
\* one result per joined record, in the order of the records, whichever
\* Evaluator calls and batch requests failed.
C1_OneResultPerRecord ==
  runPc = "summary" => MsidsOf(allResults) = KeysOfRecords(runMerged)

\* C2: an Evaluator call that throws or whose text cannot be parsed resolves
\* to one failed entry per requested KPI for its record and any other call
\* to the scores it returned, no other slot of the batch is touched, the
\* handler answers OK with the value of each slot in place, and the run
\* appends them and goes on.
C2_FallbackSubstitution ==
  [][/\ \A call \in inFlight : \A answer \in Answers(Val(request).kpis) :
          EvaluatorAnswers(call, answer)
            => LET slots == Val(settled')
                   mine == Val(slots[call.slot])
               IN /\ mine.msid = KeyOf(Val(request).batch[call.slot].source)
                  /\ IF answer.kind \in {"throws", "no_json", "bad_json"}
                     THEN IsFallback(mine, Val(request).kpis)
                     ELSE mine.scores = answer.scores
                  /\ \A j \in DOMAIN slots : j # call.slot => slots[j] = Val(settled)[j]
     /\ EvaluateRespond
          => /\ Val(response').ok
             /\ Len(Val(response').results) = Len(Val(request).batch)
             /\ \A j \in DOMAIN Val(settled) : Val(response').results[j] = Val(Val(settled)[j])
     /\ (BatchSettles /\ Val(response).ok)
          => /\ allResults' = allResults \o Val(response).results
             /\ runPc' \in {"batch", "summary"}]_vars

\* witness of C2: a batch of two answered OK, one record with the failed
\* entries and the other with the scores of its own call
C2_Witness ==
  /\ apiKey
  /\ ~IsNull(response) /\ Val(response).ok
  /\ \E j, k \in DOMAIN Val(response).results :
       /\ IsFallback(Val(response).results[j], Val(request).kpis)
       /\ Val(response).results[k].scores[1].score = 5

\* C3: when the request of a batch fails (the fetch rejects or the status is
\* not OK), every record of that batch gets a result of failed entries in
\* allResults, and the run goes on with the next batch.
C3_BatchFailureFallback ==
  [][(BatchSettles /\ ~Val(response).ok)
       => /\ Len(allResults') = Len(allResults) + Len(batches[batchIndex])
          /\ \A j \in DOMAIN batches[batchIndex] :
               /\ allResults'[Len(allResults) + j].msid = KeyOf(batches[batchIndex][j].source)
               /\ IsFallback(allResults'[Len(allResults) + j], runKpis)
          /\ runPc' \in {"batch", "summary"}]_vars

\* C4: the results of an answered batch are in the order of the submitted
\* records, whatever the order in which the Evaluator calls were answered.
C4_PositionalOrder ==
  (~IsNull(response) /\ Val(response).ok)
    => MsidsOf(Val(response).results) = KeysOfRecords(Val(request).batch)

\* witness of C4: the second call of a batch was answered before the first
C4_Witness ==
  /\ ~IsNull(response) /\ Val(response).ok
  /\ completionOrder = <<2, 1>>
  /\ KeysOfRecords(Val(request).batch) = <<"A", "B">>

C6_BatchCoverage ==
  runPc = "batch"
    => /\ Len(batches) = (Len(runMerged) + BATCH_SIZE - 1) \div BATCH_SIZE
       /\ \A b \in DOMAIN batches : Len(batches[b]) >= 1 /\ Len(batches[b]) <= BATCH_SIZE
       /\ Flatten(batches) = runMerged

\* witness of C6: three records in batches of two, the last batch partial
C6_Witness ==
  /\ runPc = "batch"
  /\ BATCH_SIZE = 2
  /\ Len(runMerged) = 3
  /\ Len(batches) = 2
  /\ Len(batches[2]) = 1

(***************************************************************************)
(* Claims about the statistics.                                            *)
(***************************************************************************)
\* the positions (result, entry) of the valid scores of a KPI
ValidEntries(results, kpiId) ==
  {<<i, j>> \in (DOMAIN results) \X (1..4) :
     /\ j \in DOMAIN results[i].scores
     /\ results[i].scores[j].kpiId = kpiId
     /\ results[i].scores[j].score > 0}

RECURSIVE SumAt(_, _)
SumAt(results, positions) ==
  IF positions = {} THEN 0
  ELSE LET p == CHOOSE q \in positions : TRUE
       IN results[p[1]].scores[p[2]].score + SumAt(results, positions \ {p})

\* sum of the valid scores over their count, 0 when there is none
ExpectedAverage(results, kpiId) ==
  LET valid == ValidEntries(results, kpiId)
  IN IF valid = {} THEN [n |-> 0, d |-> 1]
     ELSE [n |-> SumAt(results, valid), d |-> Cardinality(valid)]

\* C10: the averageScore of every KPI in the stored summary, and the mean
\* shown by the results view, is the sum of the scores of that KPI that are
\* above 0 over their count, and 0 when there is none.
C10_AverageExcludesFailures ==
  /\ ~IsNull(evaluationSummary)
       => \A k \in DOMAIN Val(evaluationSummary) :
            Val(evaluationSummary)[k].averageScore =
              ExpectedAverage(Val(evaluationResults), Val(evaluationSummary)[k].kpiId)
  /\ (currentPhase = "RESULTS" /\ ~IsNull(evaluationResults))
       => \A k \in DOMAIN SummaryStats(evaluationResults, kpis) :
            SummaryStats(evaluationResults, kpis)[k].mean =
              ExpectedAverage(Val(evaluationResults), kpis[k].id)

\* witness of C10: the scores 4, 0, 5 of KPI 1 average to 9/2
C10_Witness ==
  /\ currentPhase = "RESULTS"
  /\ ~IsNull(evaluationSummary)
  /\ [i \in DOMAIN Val(evaluationResults) |-> Val(evaluationResults)[i].scores[1].score]
       = <<4, 0, 5>>
  /\ Val(evaluationSummary)[1].averageScore = [n |-> 9, d |-> 2]
  /\ Val(evaluationSummary)[3].averageScore = [n |-> 0, d |-> 1]

(***************************************************************************)
(* POST /api/query (src/app/api/query/route.ts) and its caller             *)
(* handleTerminalQuery; GET /api/projects.                                 *)
(***************************************************************************)
\* every score of the KPI, whatever its value
AllScoresOfKpi(results, kpiId) ==
  Flatten([i \in DOMAIN results |-> ScoresOfKpi(results[i], kpiId)])

\* avgScores, as generateDemoResponse and POST both compute it
AvgScores(results, kpiList) ==
  [k \in DOMAIN kpiList |->
     [kpiId |-> kpiList[k].id,
      average |-> Quotient(AllScoresOfKpi(results, kpiList[k].id))]]

\* a question typed in the terminal of the results screen: the fetch of
\* /api/query settles (ok: the answer, built on avgScores, is shown)
HandleTerminalQuery(ok) ==
  /\ currentPhase = "RESULTS"
  /\ ~IsNull(evaluationResults) /\ Len(Val(evaluationResults)) > 0
  /\ queryStats' = IF ok THEN Some(AvgScores(Val(evaluationResults), kpis)) ELSE Null
  /\ UNCHANGED <<pendingReevals, projectList, testSetView, testResults, reevalLines, summaryLog, testSet, testSetPc>>
  /\ UNCHANGED <<storeVars, envVars, runVars, fetchVars>>

\* scoreEntry.kpiKey || scoreEntry.shortName || scoreEntry.kpiId: the stored
\* entries carry a kpiId only
KpiKey(entry) == <<"kpiId", entry.kpiId>>
\* the key of the tracker of a KPI: kpi.shortName
TrackerKey(kpi) == <<"shortName", kpi.id>>

\* every score of every stored result (each is a number)
StoredScores(rows) ==
  Flatten([i \in DOMAIN rows |-> [j \in DOMAIN rows[i].scores |-> rows[i].scores[j].score]])

\* the scores added to the tracker of one KPI
TrackedScores(rows, kpi) ==
  Flatten([i \in DOMAIN rows |->
     LET hits == SelectSeq(rows[i].scores, LAMBDA e : KpiKey(e) = TrackerKey(kpi))
     IN [j \in DOMAIN hits |-> hits[j].score]])

\* count > 0 ? total / count : null
QuotientOrNull(scores) ==
  IF Len(scores) > 0 THEN Some([n |-> SumSeq(scores), d |-> Len(scores)]) ELSE Null

\* GET /api/projects: the overall score and the per-KPI averages of the project
ListProjects ==
  /\ projectList' = Some([overallScore |-> QuotientOrNull(StoredScores(testResults)),
                          kpiAverages |-> [k \in DOMAIN kpis |->
                                             QuotientOrNull(TrackedScores(testResults, kpis[k]))]])
  /\ UNCHANGED <<pendingReevals, queryStats, testSetView, testResults, reevalLines, summaryLog, testSet, testSetPc>>
  /\ UNCHANGED <<storeVars, envVars, runVars, fetchVars>>

\* Math.round(q * 100) / 100
Round2(q) == [n |-> (200 * q.n + q.d) \div (2 * q.d), d |-> 100]

\* the median of GET /api/testsets/[id]
TestSetMedian(sorted) ==
  IF Len(sorted) > 0
  THEN IF Len(sorted) % 2 = 0
       THEN [n |-> sorted[Len(sorted) \div 2] + sorted[Len(sorted) \div 2 + 1], d |-> 2]
       ELSE [n |-> sorted[Len(sorted) \div 2 + 1], d |-> 1]
  ELSE [n |-> 0, d |-> 1]

\* summaryStats of GET /api/testsets/[id] over the stored results
TestSetStats(rows, kpiList) ==
  [k \in DOMAIN kpiList |->
     LET scores == KeepValid(AllScoresOfKpi(rows, kpiList[k].id))
     IN [kpiId |-> kpiList[k].id,
         mean |-> Round2(Quotient(scores)),
         median |-> Round2(TestSetMedian(SortAsc(scores))),
         count |-> Len(scores)]]

\* GET /api/testsets/[id]
GetTestSet ==
  /\ testSetView' = Some(TestSetStats(testResults, kpis))
  /\ UNCHANGED <<pendingReevals, queryStats, projectList, testResults, reevalLines, summaryLog, testSet, testSetPc>>
  /\ UNCHANGED <<storeVars, envVars, runVars, fetchVars>>

(***************************************************************************)
(* The answers on their own: the results screen over every result list of  *)
(* up to MaxResults results, the same results being stored for the project.*)
(***************************************************************************)
InitQuery ==
  /\ \E results \in SeqsUpTo(StatResults, MaxResults) \ {<<>>} :
       /\ evaluationResults = Some(results)
       /\ testResults = results
       /\ mergedData = Some([i \in DOMAIN results |->
                               [source |-> FlowRow("A"), target |-> FlowRow("A")]])
       /\ targetData = Some([i \in DOMAIN results |-> FlowRow("A")])
  /\ sourceData = Some(<<FlowRow("A")>>)
  /\ kpis = [i \in 1..4 |-> [id |-> i, configured |-> TRUE]]
  /\ evaluationSummary = Null
  /\ currentPhase = "RESULTS"
  /\ isLoading = FALSE
  /\ dataMismatchLog = <<>>
  /\ validationError = Null
  /\ RunIdle
  /\ pendingReevals = {}
  /\ queryStats = Null
  /\ projectList = Null
  /\ testSetView = Null
  /\ reevalLines = <<>>
  /\ summaryLog = ""
  /\ testSet = Null
  /\ testSetPc = "idle"
  /\ BATCH_SIZE = MaxBatchSize
  /\ apiKey = TRUE

NextQuery ==
  \/ \E ok \in BOOLEAN : HandleTerminalQuery(ok)
  \/ ListProjects
  \/ GetTestSet

SpecQuery == InitQuery /\ [][NextQuery]_vars

\* the valid scores of every stored result
ValidStoredScores(rows) == SelectSeq(StoredScores(rows), LAMBDA sc : sc > 0)

\* C11: score 0 is left out of every average: the per-KPI averages of the
\* query responder are the sum over the count of the scores above 0 (0 when
\* there is none), and the overall score of the project list is the sum over
\* the count of the stored scores above 0 (null when there is none).
C11_ZeroExcludedEverywhere ==
  /\ ~IsNull(queryStats)
       => \A k \in DOMAIN Val(queryStats) :
            Val(queryStats)[k].average =
              ExpectedAverage(Val(evaluationResults), Val(queryStats)[k].kpiId)
  /\ ~IsNull(projectList)
       => Val(projectList).overallScore = QuotientOrNull(ValidStoredScores(testResults))

\* equality of two quotients as numbers
SameNumber(p, q) == p.n * q.d = q.n * p.d

\* how many of the scores are below v, and at most v
CountBelow(scores, v) == Len(SelectSeq(scores, LAMBDA sc : sc < v))
CountUpTo(scores, v) == Len(SelectSeq(scores, LAMBDA sc : sc <= v))

\* the k-th smallest of the scores
KthSmallest(scores, k) ==
  CHOOSE v \in Range(scores) : CountBelow(scores, v) < k /\ k <= CountUpTo(scores, v)

\* the median of the scores above 0 of a KPI, 0 when there is none
ExpectedMedian(results, kpiId) ==
  LET valid == SelectSeq(AllScoresOfKpi(results, kpiId), LAMBDA sc : sc > 0)
      half == Len(valid) \div 2
  IN IF Len(valid) = 0 THEN [n |-> 0, d |-> 1]
     ELSE IF Len(valid) % 2 = 1 THEN [n |-> KthSmallest(valid, half + 1), d |-> 1]
     ELSE [n |-> KthSmallest(valid, half) + KthSmallest(valid, half + 1), d |-> 2]

\* C12: the median of a KPI, in the results view and in the answer of
\* GET /api/testsets/[id], is the middle one of its scores above 0 in
\* ascending order for an odd count, the average of the two middle ones for
\* an even count, and 0 when there is no score above 0.
C12_Median ==
  /\ currentPhase = "RESULTS"
       => \A k \in DOMAIN SummaryStats(evaluationResults, kpis) :
            SummaryStats(evaluationResults, kpis)[k].median =
              ExpectedMedian(Val(evaluationResults), kpis[k].id)
  /\ ~IsNull(testSetView)
       => \A k \in DOMAIN Val(testSetView) :
            SameNumber(Val(testSetView)[k].median,
                       ExpectedMedian(testResults, Val(testSetView)[k].kpiId))

\* witness of C12: the scores 3, 0, 2 of KPI 1, in that order, have the
\* median 5/2, and KPI 3 without a valid score has the median 0
C12_Witness ==
  /\ currentPhase = "RESULTS"
  /\ ~IsNull(testSetView)
  /\ [i \in DOMAIN testResults |-> testResults[i].scores[1].score] = <<3, 0, 2>>
  /\ SummaryStats(evaluationResults, kpis)[1].median = [n |-> 5, d |-> 2]
  /\ Val(testSetView)[1].median = [n |-> 250, d |-> 100]
  /\ Val(testSetView)[3].median = [n |-> 0, d |-> 100]

(***************************************************************************)
(* The command re-evaluate msid X (handleTerminalCommand of                 *)
(* src/app/page.tsx), PUT /api/evaluate and updateEvaluationResult.        *)
(***************************************************************************)
\* an entry of the terminal
Line(text, msid) == [text |-> text, msid |-> msid]
BlankLine == Line("", "")

\* the update that pushes the result at the end of the list
UpdateAppending(results, msid, result) ==
  IF IsNull(results) THEN Some(<<result>>) ELSE Some(Append(Val(results), result))

\* state.evaluationResults?.map((r) => r.msid === msid ? result : r) ?? [result]
UpdateEvaluationResult(results, msid, result) ==
  IF IsNull(results) THEN Some(<<result>>)
  ELSE Some([i \in DOMAIN Val(results) |->
               IF Val(results)[i].msid = msid THEN result ELSE Val(results)[i]])

\* the handler answering a failed call with the failed entries of the bulk run
PutResponseWithFallback(msid, kpiList, answer, hasKey) ==
  IF ~hasKey \/ answer.kind = "json"
  THEN [ok |-> TRUE, status |-> 200, result |-> Some([msid |-> msid, scores |-> answer.scores])]
  ELSE [ok |-> TRUE, status |-> 200,
        result |-> Some([msid |-> msid, scores |-> FallbackScores(kpiList)])]

\* PUT /api/evaluate: demo mode answers with scores at once; otherwise the
\* scores of the Evaluator, or status 500 when the call throws, its text has
\* no {...} or the {...} is not JSON
PutResponse(msid, kpiList, answer, hasKey) ==
  IF ~hasKey \/ answer.kind = "json"
  THEN [ok |-> TRUE, status |-> 200, result |-> Some([msid |-> msid, scores |-> answer.scores])]
  ELSE [ok |-> FALSE, status |-> 500, result |-> Null]

\* what is typed after re-evaluate msid
TypedMsids == {"a", "b", "A"}

\* mergedData?.find((m) => m.source.MSID === msid)
FindRecord(merged, msid) ==
  IF IsNull(merged) THEN Null
  ELSE LET hits == {i \in DOMAIN Val(merged) : KeyOf(Val(merged)[i].source) = msid}
       IN IF hits = {} THEN Null
          ELSE Some(Val(merged)[CHOOSE i \in hits : \A j \in hits : i <= j])

\* the command is typed: it is lower-cased, the record is looked up and the
\* PUT request is sent
ReEvaluate(typed) ==
  /\ currentPhase = "RESULTS"
  /\ Cardinality(pendingReevals) < MaxPending
  /\ LET msid == ToLowerCase(typed)
     IN IF IsNull(FindRecord(mergedData, msid))
        THEN /\ reevalLines' = <<BlankLine, Line("ERROR: MSID not found in dataset", msid),
                                 BlankLine>>
             /\ UNCHANGED pendingReevals
        ELSE /\ reevalLines' = <<BlankLine, Line("RE-EVALUATING MSID", msid)>>
             /\ pendingReevals' = pendingReevals \cup {[msid |-> msid, kpis |-> kpis]}
  /\ UNCHANGED <<queryStats, projectList, testSetView, testResults, summaryLog, testSet, testSetPc>>
  /\ UNCHANGED <<storeVars, envVars, runVars, fetchVars>>

\* how the fetch of a PUT request can end: the Evaluator's answer reaches the
\* handler, or the fetch rejects
ReevalOutcomes(kpiList) ==
  Answers(kpiList) \cup {[kind |-> "network", scores |-> <<>>]}

\* the settling that writes its result into the result set as it was when
\* the results screen opened, not as it is now
ReEvaluateSettlesStale(req, outcome) ==
  /\ req \in pendingReevals
  /\ apiKey \/ outcome.kind \in {"json", "network"}
  /\ pendingReevals' = pendingReevals \ {req}
  /\ IF outcome.kind = "network"
     THEN /\ reevalLines' = <<Line("ERROR: Network error during re-evaluation", ""), BlankLine>>
          /\ UNCHANGED evaluationResults
     ELSE LET put == PutResponse(req.msid, req.kpis, outcome, apiKey)
              opened == IF IsNull(evaluationResults) THEN Null
                        ELSE Some([i \in DOMAIN Val(evaluationResults) |->
                                     [msid |-> Val(evaluationResults)[i].msid,
                                      scores |-> UniformScores(req.kpis, 3)]])
          IN IF put.ok
             THEN /\ evaluationResults' =
                       UpdateEvaluationResult(opened, req.msid, Val(put.result))
                  /\ reevalLines' = <<Line("RE-EVALUATION COMPLETE for MSID", req.msid),
                                      BlankLine>>
             ELSE /\ reevalLines' = <<Line("ERROR: Re-evaluation failed", ""), BlankLine>>
                  /\ UNCHANGED evaluationResults
  /\ UNCHANGED <<sourceData, targetData, mergedData, kpis, evaluationSummary,
                 currentPhase, isLoading, dataMismatchLog, validationError>>
  /\ UNCHANGED <<queryStats, projectList, testSetView, testResults, summaryLog, testSet, testSetPc>>
  /\ UNCHANGED <<envVars, runVars, fetchVars>>

\* the awaited fetch of the PUT request settles
ReEvaluateSettles(req, outcome) ==
  /\ req \in pendingReevals
  /\ apiKey \/ outcome.kind \in {"json", "network"}
  /\ pendingReevals' = pendingReevals \ {req}
  /\ IF outcome.kind = "network"
     THEN /\ reevalLines' = <<Line("ERROR: Network error during re-evaluation", ""), BlankLine>>
          /\ UNCHANGED evaluationResults
     ELSE LET put == PutResponse(req.msid, req.kpis, outcome, apiKey)
          IN IF put.ok
             THEN /\ evaluationResults' =
                       UpdateEvaluationResult(evaluationResults, req.msid, Val(put.result))
                  /\ reevalLines' = <<Line("RE-EVALUATION COMPLETE for MSID", req.msid),
                                      BlankLine>>
             ELSE /\ reevalLines' = <<Line("ERROR: Re-evaluation failed", ""), BlankLine>>
                  /\ UNCHANGED evaluationResults
  /\ UNCHANGED <<sourceData, targetData, mergedData, kpis, evaluationSummary,
                 currentPhase, isLoading, dataMismatchLog, validationError>>
  /\ UNCHANGED <<queryStats, projectList, testSetView, testResults, summaryLog, testSet, testSetPc>>
  /\ UNCHANGED <<envVars, runVars, fetchVars>>

(***************************************************************************)
(* Re-evaluation on its own: the results screen after a bulk run over up   *)
(* to MaxResults records, some of whose batches may have failed.           *)
(***************************************************************************)
\* the elements of s at the positions of keep, in order
RECURSIVE PickAt(_, _)
PickAt(s, keep) ==
  IF s = <<>> THEN <<>>
  ELSE PickAt(SubSeq(s, 1, Len(s) - 1), keep)
       \o (IF Len(s) \in keep THEN <<s[Len(s)]>> ELSE <<>>)

ReevalKeys == {"a", "b", "A"}
FullKpis == [i \in 1..4 |-> [id |-> i, configured |-> TRUE]]

InitReeval ==
  /\ \E keys \in SeqsUpTo(ReevalKeys, MaxResults) \ {<<>>} :
       \E keep \in SUBSET (DOMAIN keys) :
         /\ sourceData = Some(RowsOf(Distinct(keys)))
         /\ targetData = Some(RowsOf(keys))
         /\ mergedData = Some(MergeRows(RowsOf(Distinct(keys)), RowsOf(keys)))
         /\ evaluationResults =
              Some(PickAt([i \in DOMAIN keys |->
                             [msid |-> keys[i], scores |-> UniformScores(FullKpis, 3)]], keep))
  /\ kpis = FullKpis
  /\ evaluationSummary = Null
  /\ currentPhase = "RESULTS"
  /\ isLoading = FALSE
  /\ dataMismatchLog = <<>>
  /\ validationError = Null
  /\ RunIdle
  /\ SideIdle
  /\ BATCH_SIZE = 1
  /\ apiKey \in BOOLEAN

NextReeval ==
  \/ \E typed \in TypedMsids : ReEvaluate(typed)
  \/ \E req \in pendingReevals : \E outcome \in ReevalOutcomes(req.kpis) :
       ReEvaluateSettles(req, outcome)
  \/ Restart

SpecReeval == InitReeval /\ [][NextReeval]_vars

(***************************************************************************)
(* Claims about re-evaluation.                                             *)
(***************************************************************************)
HasEntry(results, msid) ==
  ~IsNull(results) /\ \E i \in DOMAIN Val(results) : Val(results)[i].msid = msid

FailedOutcomeKinds == {"throws", "no_json", "bad_json", "network"}

\* C13: when a re-evaluation of an msid that has an entry in the result set
\* succeeds, the entries of that msid become the new result and every other
\* entry, the order and the length of the result set stay as they were.
C13_ReevaluationSplice ==
  [][\A req \in pendingReevals : \A outcome \in ReevalOutcomes(req.kpis) :
       (/\ ReEvaluateSettles(req, outcome)
        /\ outcome.kind = "json"
        /\ HasEntry(evaluationResults, req.msid))
         => LET before == Val(evaluationResults)
                after == Val(evaluationResults')
            IN /\ Len(after) = Len(before)
               /\ \A i \in DOMAIN before :
                    IF before[i].msid = req.msid
                    THEN after[i] = [msid |-> req.msid, scores |-> outcome.scores]
                    ELSE after[i] = before[i]]_vars

\* witness of C13: of three results, the one of msid a has its new scores
\* and the other two are the ones of the bulk run
C13_Witness ==
  /\ currentPhase = "RESULTS"
  /\ reevalLines = <<Line("RE-EVALUATION COMPLETE for MSID", "a"), BlankLine>>
  /\ ~IsNull(evaluationResults)
  /\ MsidsOf(Val(evaluationResults)) = <<"b", "a", "A">>
  /\ Val(evaluationResults)[2].scores = UniformScores(FullKpis, 5)
  /\ Val(evaluationResults)[1].scores = UniformScores(FullKpis, 3)
  /\ Val(evaluationResults)[3].scores = UniformScores(FullKpis, 3)

\* the results of an msid, in the order of the result set
EntriesOf(results, msid) ==
  IF IsNull(results) THEN <<>>
  ELSE SelectSeq(Val(results), LAMBDA r : r.msid = msid)

\* C27: when the response of a re-evaluation of an msid that has an entry
\* arrives, whatever other re-evaluations are still awaited or have been
\* answered before it, the entries of that msid hold its new result, the
\* entries of every other msid, those written by another re-evaluation
\* included, stay as they are, and the other awaited re-evaluations stay
\* awaited: no update is lost in either order of arrival.
C27_ConcurrentReevaluations ==
  [][\A req \in pendingReevals : \A outcome \in ReevalOutcomes(req.kpis) :
       (/\ ReEvaluateSettles(req, outcome)
        /\ outcome.kind = "json"
        /\ HasEntry(evaluationResults, req.msid))
         => /\ \A i \in DOMAIN EntriesOf(evaluationResults', req.msid) :
                 EntriesOf(evaluationResults', req.msid)[i].scores = outcome.scores
            /\ Len(EntriesOf(evaluationResults', req.msid))
                 = Len(EntriesOf(evaluationResults, req.msid))
            /\ \A other \in ReevalKeys \ {req.msid} :
                 EntriesOf(evaluationResults', other) = EntriesOf(evaluationResults, other)
            /\ pendingReevals' = pendingReevals \ {req}]_vars

\* witness of C27: the re-evaluations of b and of a have both been answered,
\* the one of a last, and each msid holds its own new scores
C27_Witness ==
  /\ pendingReevals = {}
  /\ reevalLines = <<Line("RE-EVALUATION COMPLETE for MSID", "a"), BlankLine>>
  /\ ~IsNull(evaluationResults)
  /\ MsidsOf(Val(evaluationResults)) = <<"a", "b">>
  /\ Val(evaluationResults)[1].scores = UniformScores(FullKpis, 5)
  /\ Val(evaluationResults)[2].scores = UniformScores(FullKpis, 2)

\* both re-evaluations are awaited at once, the one of a issued last
C27_BothAwaited ==
  /\ {req.msid : req \in pendingReevals} = {"a", "b"}
  /\ reevalLines = <<BlankLine, Line("RE-EVALUATING MSID", "a")>>

\* C14: when a re-evaluation succeeds for an msid that has no entry in a
\* result set that is not empty, the new result is appended to the result set.
C14_ReevaluationAppend ==
  [][\A req \in pendingReevals : \A outcome \in ReevalOutcomes(req.kpis) :
       (/\ ReEvaluateSettles(req, outcome)
        /\ outcome.kind = "json"
        /\ ~IsNull(evaluationResults)
        /\ Len(Val(evaluationResults)) > 0
        /\ ~HasEntry(evaluationResults, req.msid))
         => evaluationResults' =
              Some(Append(Val(evaluationResults),
                          [msid |-> req.msid, scores |-> outcome.scores]))]_vars

\* C15: a re-evaluation that fails (the Evaluator throws, its answer cannot
\* be parsed, or the request fails) ends with an error line in the terminal,
\* no scores are put in its place and the result set is left as it was.
C15_ReevaluationHardFailure ==
  [][\A req \in pendingReevals : \A outcome \in ReevalOutcomes(req.kpis) :
       (/\ ReEvaluateSettles(req, outcome)
        /\ outcome.kind \in FailedOutcomeKinds)
         => /\ evaluationResults' = evaluationResults
            /\ reevalLines'[1].text \in {"ERROR: Re-evaluation failed",
                                         "ERROR: Network error during re-evaluation"}]_vars

\* witness of C15: the re-evaluation of a record failed in the handler, and
\* the three results are still the ones of the bulk run
C15_Witness ==
  /\ apiKey
  /\ reevalLines = <<Line("ERROR: Re-evaluation failed", ""), BlankLine>>
  /\ pendingReevals = {}
  /\ ~IsNull(evaluationResults)
  /\ Len(Val(evaluationResults)) = 3
  /\ \A i \in DOMAIN Val(evaluationResults) :
       Val(evaluationResults)[i].scores = UniformScores(FullKpis, 3)

(***************************************************************************)
(* The bulk run with an Evaluator that does not keep to the prompt: its    *)
(* JSON parses, but the scores are not the integers 1..5 it was asked for, *)
(* or the score list is empty.                                             *)
(***************************************************************************)
\* scores outside 1..5 that a parsed answer can carry
UnaskedScores == {0, 6}

\* answers whose JSON parses but whose scores were not asked for
UnaskedAnswers(kpiList) ==
  {[kind |-> "json", scores |-> UniformScores(kpiList, v)] : v \in UnaskedScores}
  \cup {[kind |-> "json", scores |-> <<>>]}

\* everything one anthropic.messages.create call can come back with
AnyAnswers(kpiList) == Answers(kpiList) \cup UnaskedAnswers(kpiList)

InitScores ==
  /\ \E keys \in SeqsUpTo(Msids, MaxBatchSize) \ {<<>>} :
       /\ sourceData = Some(RowsOf(Distinct(keys)))
       /\ targetData = Some(RowsOf(keys))
       /\ mergedData = Some(MergeRows(RowsOf(Distinct(keys)), RowsOf(keys)))
  /\ kpis = EmptyKpis
  /\ evaluationResults = Null
  /\ evaluationSummary = Null
  /\ currentPhase = "KPI_CONFIG"
  /\ isLoading = FALSE
  /\ dataMismatchLog = <<>>
  /\ validationError = Null
  /\ RunIdle
  /\ SideIdle
  /\ BATCH_SIZE \in 1..MaxBatchSize
  /\ apiKey = TRUE

NextScores ==
  \/ \E n \in KpiCounts : RunEvaluation(n)
  \/ EvaluateStart
  \/ \E call \in inFlight : \E answer \in AnyAnswers(Val(request).kpis) :
       EvaluatorAnswers(call, answer)
  \/ EvaluateRespond
  \/ BatchSettles
  \/ \E ok \in BOOLEAN : SummarySettles(ok)

SpecScores == InitScores /\ [][NextScores]_vars

\* a score list with one entry per requested KPI and scores the prompt allows
IsAskedFor(result, kpiList) ==
  /\ Len(result.scores) = Len(kpiList)
  /\ \A i \in DOMAIN kpiList :
       /\ result.scores[i].kpiId = kpiList[i].id
       /\ result.scores[i].score \in 1..5

\* C16: every result that enters the result set carries integer scores in
\* 0..5: it is either one entry per requested KPI with a score in 1..5, or
\* the score-0 fallback that replaces an answer with any other score or with
\* a malformed score list.
C16_ScoresValidated ==
  /\ \A i \in DOMAIN allResults :
       IsAskedFor(allResults[i], FullKpis) \/ IsFallback(allResults[i], FullKpis)
  /\ ~IsNull(evaluationResults) =>
       \A i \in DOMAIN Val(evaluationResults) :
         \/ IsAskedFor(Val(evaluationResults)[i], FullKpis)
         \/ IsFallback(Val(evaluationResults)[i], FullKpis)

(***************************************************************************)
(* The page with projects (src/unnamed/part_003) used without a project:   *)
(* its runEvaluation starts like the one of src/app/page.tsx (guard on     *)
(* mergedData, EVALUATING, the batches, one fetch of /api/evaluate at a    *)
(* time) and differs when the loop over the batches is over.               *)
(***************************************************************************)
\* what the RESULTS screen renders (ResultsDisplay), else the screen of the phase
Screen ==
  IF currentPhase = "RESULTS"
  THEN IF IsNull(evaluationResults) \/ Len(Val(evaluationResults)) = 0
       THEN "NO_RESULTS_PANEL"
       ELSE "DASHBOARD"
  ELSE currentPhase

\* the awaited fetch of the current batch settles: results are pushed when
\* the response is OK and has some; after the last batch an empty allResults
\* sends the page back to the KPI wizard, otherwise the results are stored
\* and the summary is requested
BatchSettlesHub ==
  /\ runPc = "batch"
  /\ ~IsNull(response)
  /\ LET pushed == IF Val(response).ok /\ Len(Val(response).results) > 0
                   THEN allResults \o Val(response).results
                   ELSE allResults
     IN IF batchIndex < Len(batches)
        THEN /\ allResults' = pushed
             /\ batchIndex' = batchIndex + 1
             /\ request' = BatchRequest(batches, batchIndex + 1, runKpis)
             /\ isLoading' = TRUE
             /\ UNCHANGED <<runPc, evaluationResults, currentPhase, runMerged, runKpis, batches>>
        ELSE IF Len(pushed) = 0
             THEN /\ isLoading' = FALSE
                  /\ currentPhase' = "KPI_CONFIG"
                  /\ runPc' = "idle"
                  /\ request' = Null
                  /\ runMerged' = <<>>
                  /\ runKpis' = <<>>
                  /\ batches' = <<>>
                  /\ batchIndex' = 0
                  /\ allResults' = <<>>
                  /\ UNCHANGED evaluationResults
             ELSE /\ allResults' = pushed
                  /\ runPc' = "summary"
                  /\ request' = Null
                  /\ evaluationResults' = Some(pushed)
                  /\ isLoading' = TRUE
                  /\ UNCHANGED <<batchIndex, currentPhase, runMerged, runKpis, batches>>
  /\ response' = Null
  /\ settled' = Null
  /\ completionOrder' = <<>>
  /\ UNCHANGED <<sourceData, targetData, mergedData, kpis, evaluationSummary,
                 dataMismatchLog, validationError>>
  /\ UNCHANGED <<inFlight, envVars, sideVars>>

NextHub ==
  \/ \E n \in KpiCounts : RunEvaluation(n)
  \/ EvaluateStart
  \/ \E call \in inFlight : \E answer \in Answers(Val(request).kpis) :
       EvaluatorAnswers(call, answer)
  \/ EvaluateRespond
  \/ BatchRequestFails
  \/ BatchSettlesHub
  \/ \E ok \in BOOLEAN : SummarySettles(ok)

SpecHub == InitScores /\ [][NextHub]_vars

\* C17: when a bulk run over a non-empty record list ends with an empty
\* result set, the page shows the failure: it shows neither the dashboard of
\* a completed run nor simply the screen it was started from.
C17_EmptyRunSurfaced ==
  [][(/\ runPc # "idle" /\ runPc' = "idle"
      /\ Len(runMerged) > 0
      /\ \/ runPc = "batch"
         \/ runPc = "summary" /\ Len(allResults) = 0)
     => Screen' = "NO_RESULTS_PANEL"]_vars

(***************************************************************************)
(* The status of a score on the dashboard (ResultsDisplay.tsx 107-119).    *)
(* A score is a fraction n/d with d > 0.                                   *)
(***************************************************************************)
\* a classifier whose thresholds have to be exceeded
GetStatusTextStrict(score) ==
  IF 2 * score.n > 9 * score.d THEN "OPTIMAL"
  ELSE IF 2 * score.n > 7 * score.d THEN "GOOD"
  ELSE IF 2 * score.n > 5 * score.d THEN "MARGINAL"
  ELSE "CRITICAL"

\* if (score >= 4.5) return 'OPTIMAL'; if (score >= 3.5) return 'GOOD';
\* if (score >= 2.5) return 'MARGINAL'; return 'CRITICAL'
GetStatusText(score) ==
  IF 2 * score.n >= 9 * score.d THEN "OPTIMAL"
  ELSE IF 2 * score.n >= 7 * score.d THEN "GOOD"
  ELSE IF 2 * score.n >= 5 * score.d THEN "MARGINAL"
  ELSE "CRITICAL"

\* the same thresholds, returning the colour
GetStatusColor(score) ==
  IF 2 * score.n >= 9 * score.d THEN "#008000"
  ELSE IF 2 * score.n >= 7 * score.d THEN "#228B22"
  ELSE IF 2 * score.n >= 5 * score.d THEN "#FF8C00"
  ELSE "#CC0000"

\* the rows of the KPI table: the statistics with the status of the mean
StatusRows ==
  LET stats == SummaryStats(evaluationResults, kpis)
  IN [k \in DOMAIN stats |->
        [kpiId |-> stats[k].kpiId, mean |-> stats[k].mean,
         status |-> GetStatusText(stats[k].mean),
         color |-> GetStatusColor(stats[k].mean)]]

\* the colour that goes with a status
ColorOf(status) ==
  CASE status = "OPTIMAL" -> "#008000"
    [] status = "GOOD" -> "#228B22"
    [] status = "MARGINAL" -> "#FF8C00"
    [] status = "CRITICAL" -> "#CC0000"

\* score >= tenths / 10
AtLeastTenths(score, tenths) == 10 * score.n >= tenths * score.d

\* C18: every average shown on the dashboard has exactly the status of its
\* threshold band: OPTIMAL from 4.5, GOOD from 3.5 up to 4.5, MARGINAL from
\* 2.5 up to 3.5, CRITICAL below 2.5; the colour is the one of that status.
C18_StatusThresholds ==
  currentPhase = "RESULTS" =>
    \A k \in DOMAIN StatusRows :
      LET row == StatusRows[k]
      IN /\ row.status = "OPTIMAL" <=> AtLeastTenths(row.mean, 45)
         /\ row.status = "GOOD" <=>
              AtLeastTenths(row.mean, 35) /\ ~AtLeastTenths(row.mean, 45)
         /\ row.status = "MARGINAL" <=>
              AtLeastTenths(row.mean, 25) /\ ~AtLeastTenths(row.mean, 35)
         /\ row.status = "CRITICAL" <=> ~AtLeastTenths(row.mean, 25)
         /\ row.color = ColorOf(row.status)

\* an average of exactly 4.5 shown as OPTIMAL next to one of exactly 3.0
\* shown as MARGINAL
C18_Witness ==
  /\ currentPhase = "RESULTS"
  /\ Len(StatusRows) = 4
  /\ SameNumber(StatusRows[1].mean, [n |-> 9, d |-> 2])
  /\ StatusRows[1].status = "OPTIMAL"
  /\ SameNumber(StatusRows[2].mean, [n |-> 3, d |-> 1])
  /\ StatusRows[2].status = "MARGINAL"
  /\ ~IsNull(queryStats)

(***************************************************************************)
(* The explanations of POST /api/generate-summary: the handler of          *)
(* src/app/api/generate-summary/route.ts and its variant with a demo mode  *)
(* (src/unnamed/part_006).  The credential is the one the handler reads:   *)
(* OPENAI_API_KEY in route.ts, ANTHROPIC_API_KEY in part_006.              *)
(***************************************************************************)
DemoLog == "[DEMO MODE] Generating fallback summary explanations"
FailedLog == "Failed to generate explanations:"

\* an explanation chosen with the thresholds of the status of the dashboard
ExplanationByStatus(average) ==
  IF 2 * average.n >= 9 * average.d
  THEN "Performance meets optimal standards. Quality targets achieved."
  ELSE IF 2 * average.n >= 7 * average.d
  THEN "Acceptable performance with room for improvement."
  ELSE IF 2 * average.n >= 5 * average.d
  THEN "Below threshold. Review and remediation recommended."
  ELSE "Critical issues detected. Immediate attention required."

\* getExplanationForScore of part_006
GetExplanationForScore(average) ==
  IF average.n >= 4 * average.d
  THEN "Performance meets optimal standards. Quality targets achieved."
  ELSE IF average.n >= 3 * average.d
  THEN "Acceptable performance with room for improvement."
  ELSE IF average.n >= 2 * average.d
  THEN "Below threshold. Review and remediation recommended."
  ELSE "Critical issues detected. Immediate attention required."

\* the generic explanations of the catch block, the same in both handlers
GenericExplanation(average) ==
  IF average.n >= 4 * average.d THEN "Performance meets optimal standards."
  ELSE IF average.n >= 3 * average.d
  THEN "Acceptable performance with room for improvement."
  ELSE IF average.n >= 2 * average.d THEN "Below threshold. Review recommended."
  ELSE "Critical issues detected. Immediate attention required."

\* the two handlers
SummaryHandlers == {"route.ts", "part_006"}

\* how the call of the summarizer can end: an array with one explanation per
\* KPI, a text without [...], or the call or JSON.parse throws
SummarizerOutcomes == {"array", "no_array", "throws"}

\* what the handler writes to the console
SummaryConsole(handler, hasKey, outcome) ==
  IF ~hasKey THEN (IF handler = "part_006" THEN DemoLog ELSE "")
  ELSE IF outcome = "throws" THEN FailedLog ELSE ""

\* the shortExplanation the handler leaves in a summary
ShortExplanation(handler, hasKey, outcome, average) ==
  IF ~hasKey
  THEN (IF handler = "part_006" THEN GetExplanationForScore(average) ELSE "")
  ELSE IF outcome = "array" THEN "brief explanation"
  ELSE IF outcome = "throws" THEN GenericExplanation(average)
  ELSE ""

\* the summaries of the response
ExplainedSummaries(handler, hasKey, outcome, results, kpiList) ==
  LET plain == Summaries(results, kpiList)
  IN [k \in DOMAIN plain |->
        [kpiId |-> plain[k].kpiId,
         averageScore |-> plain[k].averageScore,
         shortExplanation |->
           ShortExplanation(handler, hasKey, outcome, plain[k].averageScore)]]

\* the fetch of /api/generate-summary comes back OK: the summaries with
\* their explanations are stored and the run ends in RESULTS
SummarySettlesExplained(handler, outcome) ==
  /\ runPc = "summary"
  /\ evaluationSummary' =
       Some(ExplainedSummaries(handler, apiKey, outcome, allResults, runKpis))
  /\ summaryLog' = SummaryConsole(handler, apiKey, outcome)
  /\ isLoading' = FALSE
  /\ currentPhase' = "RESULTS"
  /\ runPc' = "idle"
  /\ runMerged' = <<>>
  /\ runKpis' = <<>>
  /\ batches' = <<>>
  /\ batchIndex' = 0
  /\ allResults' = <<>>
  /\ UNCHANGED <<sourceData, targetData, mergedData, kpis, evaluationResults,
                 dataMismatchLog, validationError>>
  /\ UNCHANGED <<pendingReevals, queryStats, projectList, testSetView, testResults,
                 reevalLines, testSet, testSetPc>>
  /\ UNCHANGED <<fetchVars, envVars>>

\* runEvaluation waiting for the summary of every result list of up to
\* MaxResults results, with and without the credential
InitBands ==
  /\ \E results \in SeqsUpTo(StatResults, MaxResults) \ {<<>>} :
       /\ allResults = results
       /\ evaluationResults = Some(results)
       /\ runMerged = [i \in DOMAIN results |-> [source |-> FlowRow("A"), target |-> FlowRow("A")]]
       /\ mergedData = Some(runMerged)
  /\ sourceData = Some(<<FlowRow("A")>>)
  /\ targetData = Some([i \in DOMAIN runMerged |-> FlowRow("A")])
  /\ kpis = FullKpis
  /\ runKpis = kpis
  /\ evaluationSummary = Null
  /\ currentPhase = "EVALUATING"
  /\ isLoading = TRUE
  /\ dataMismatchLog = <<>>
  /\ validationError = Null
  /\ runPc = "summary"
  /\ batches = <<runMerged>>
  /\ batchIndex = 1
  /\ request = Null
  /\ settled = Null
  /\ inFlight = {}
  /\ completionOrder = <<>>
  /\ response = Null
  /\ SideIdle
  /\ BATCH_SIZE = MaxResults
  /\ apiKey \in BOOLEAN

NextBands ==
  \E handler \in SummaryHandlers, outcome \in SummarizerOutcomes :
    SummarySettlesExplained(handler, outcome)

SpecBands == InitBands /\ [][NextBands]_vars

\* the band an explanation text stands for
BandOf(text) ==
  CASE text \in {"Performance meets optimal standards. Quality targets achieved.",
                 "Performance meets optimal standards."} -> "optimal"
    [] text = "Acceptable performance with room for improvement." -> "acceptable"
    [] text \in {"Below threshold. Review and remediation recommended.",
                 "Below threshold. Review recommended."} -> "below threshold"
    [] text = "Critical issues detected. Immediate attention required." -> "critical"
    [] OTHER -> "none"

\* the band of an average with the boundaries 4, 3 and 2
ExpectedBand(average) ==
  IF AtLeastTenths(average, 40) THEN "optimal"
  ELSE IF AtLeastTenths(average, 30) THEN "acceptable"
  ELSE IF AtLeastTenths(average, 20) THEN "below threshold"
  ELSE "critical"

\* C19: when the handler falls back to its own explanations (no credential:
\* the demo mode; or the summarizer call failed), every summary gets the
\* explanation of exactly the band of its average with the boundaries 4, 3
\* and 2, the same on both paths; an average of exactly 3.0 is acceptable
\* here while its status on the dashboard is MARGINAL.
C19_ExplanationBands ==
  (~IsNull(evaluationSummary) /\ summaryLog \in {DemoLog, FailedLog}) =>
    \A k \in DOMAIN Val(evaluationSummary) :
      LET s == Val(evaluationSummary)[k]
      IN /\ BandOf(s.shortExplanation) = ExpectedBand(s.averageScore)
         /\ SameNumber(s.averageScore, [n |-> 3, d |-> 1]) =>
              /\ BandOf(s.shortExplanation) = "acceptable"
              /\ GetStatusText(s.averageScore) = "MARGINAL"

\* the demo mode has explained averages of exactly 4, exactly 3 and 0
C19_Witness ==
  /\ ~IsNull(evaluationSummary)
  /\ summaryLog = DemoLog
  /\ LET sums == Val(evaluationSummary)
     IN /\ SameNumber(sums[1].averageScore, [n |-> 4, d |-> 1])
        /\ BandOf(sums[1].shortExplanation) = "optimal"
        /\ SameNumber(sums[2].averageScore, [n |-> 3, d |-> 1])
        /\ BandOf(sums[2].shortExplanation) = "acceptable"
        /\ BandOf(sums[3].shortExplanation) = "critical"

(***************************************************************************)
(* The overall score of the dashboard: ResultsDisplay.tsx 121-123, and the *)
(* variant of the component that leaves out the KPIs without results       *)
(* (src/unnamed/part_017).                                                 *)
(***************************************************************************)
\* the sum of a list of fractions, as a fraction
RECURSIVE SumFractions(_)
SumFractions(fs) ==
  IF fs = <<>> THEN [n |-> 0, d |-> 1]
  ELSE LET rest == SumFractions(Tail(fs))
           f == Head(fs)
       IN [n |-> f.n * rest.d + rest.n * f.d, d |-> f.d * rest.d]

\* summaryStats.length > 0
\*   ? summaryStats.reduce((acc, s) => acc + s.mean, 0) / summaryStats.length : 0
OverallMean(stats) ==
  IF Len(stats) > 0
  THEN LET total == SumFractions([k \in DOMAIN stats |-> stats[k].mean])
       IN [n |-> total.n, d |-> total.d * Len(stats)]
  ELSE [n |-> 0, d |-> 1]

\* summaryStats of part_017: .filter(stat => stat.count > 0)
SummaryStatsWithResults(results, kpiList) ==
  SelectSeq(SummaryStats(results, kpiList), LAMBDA stat : stat.count > 0)

\* the overall score each of the two dashboards shows
OverallScores ==
  [dashboard |-> OverallMean(SummaryStats(evaluationResults, kpis)),
   withResults |-> OverallMean(SummaryStatsWithResults(evaluationResults, kpis))]

\* the mean of the per-KPI averages over every KPI of the list, a KPI
\* without valid entries counting as 0
ExpectedOverall(results, kpiList) ==
  LET total == SumFractions([k \in DOMAIN kpiList |->
                               ExpectedAverage(results, kpiList[k].id)])
  IN [n |-> total.n, d |-> total.d * Len(kpiList)]

\* C20: the overall score on the results screen is the arithmetic mean of
\* the per-KPI averages over every KPI; a KPI with no valid (score > 0) entry
\* contributes 0 and still counts in the divisor.
C20_OverallMean ==
  (currentPhase = "RESULTS" /\ ~IsNull(evaluationResults)
     /\ Len(Val(evaluationResults)) > 0) =>
    /\ SameNumber(OverallScores.dashboard, ExpectedOverall(Val(evaluationResults), kpis))
    /\ SameNumber(OverallScores.withResults, ExpectedOverall(Val(evaluationResults), kpis))

(***************************************************************************)
(* The test sets of a project (src/app/api/projects/[id]/route.ts):        *)
(* POST /api/projects/[id]/testsets stores the rows, and                   *)
(* POST /api/testsets/[id]/evaluate joins and scores them.  One test set   *)
(* is followed; its rows come back from the database in the order they     *)
(* were inserted.                                                          *)
(***************************************************************************)
\* POST /api/projects/[id]/testsets: a new test set with the rows of the
\* body and the KPIs as snapshot; it has no results yet (the one test set
\* that is followed is created once)
CreateTestSet(source, target) ==
  /\ IsNull(testSet)
  /\ testSet' = Some([sourceRows |-> source, targetRows |-> target, kpis |-> FullKpis])
  /\ testResults' = <<>>
  /\ testSetPc' = "idle"
  /\ UNCHANGED <<pendingReevals, queryStats, projectList, testSetView, reevalLines,
                 summaryLog>>
  /\ UNCHANGED <<storeVars, envVars, runVars, fetchVars>>

\* Array.from(sourceMap.keys()).filter((msid) => targetMap.has(msid))
MatchingMsids(rows) ==
  SelectSeq(Distinct(KeyColumn(rows.sourceRows)),
            LAMBDA msid : msid \in Range(KeyColumn(rows.targetRows)))

\* the request reaches the handler: without a matching MSID it is answered
\* with status 400; otherwise the results of the test set are deleted and
\* the evaluation begins
EvaluateTestSetStart ==
  /\ ~IsNull(testSet)
  /\ testSetPc # "running"
  /\ IF Len(MatchingMsids(Val(testSet))) = 0
     THEN /\ testSetPc' = "no_match"
          /\ UNCHANGED testResults
     ELSE /\ testSetPc' = "running"
          /\ testResults' = <<>>
  /\ UNCHANGED <<pendingReevals, queryStats, projectList, testSetView, reevalLines,
                 summaryLog, testSet>>
  /\ UNCHANGED <<storeVars, envVars, runVars, fetchVars>>

\* the scores one record can end with: generateDemoScores in demo mode;
\* parsed.scores or the failed entries otherwise
TestSetScores(kpiList, hasKey) ==
  {UniformScores(kpiList, v) : v \in EvaluatorScores}
  \cup (IF hasKey THEN {FallbackScores(kpiList)} ELSE {})

\* every record is scored, createMany stores the results and the request
\* is answered with success
EvaluateTestSetFinish(scoring) ==
  /\ testSetPc = "running"
  /\ LET matching == MatchingMsids(Val(testSet))
     IN /\ DOMAIN scoring = DOMAIN matching
        /\ testResults' = testResults \o
             [i \in DOMAIN matching |-> [msid |-> matching[i], scores |-> scoring[i]]]
  /\ testSetPc' = "ok"
  /\ UNCHANGED <<pendingReevals, queryStats, projectList, testSetView, reevalLines,
                 summaryLog, testSet>>
  /\ UNCHANGED <<storeVars, envVars, runVars, fetchVars>>

\* something outside the per-record try throws (createMany rejects, say):
\* the catch block answers with status 500
EvaluateTestSetFails ==
  /\ testSetPc = "running"
  /\ testSetPc' = "failed"
  /\ UNCHANGED <<pendingReevals, queryStats, projectList, testSetView, reevalLines,
                 summaryLog, testSet, testResults>>
  /\ UNCHANGED <<storeVars, envVars, runVars, fetchVars>>

\* the row sets of a test set: up to MaxRows rows each
TestSetRows == {RowsOf(keys) : keys \in SeqsUpTo(Msids, MaxRows)}

InitTestSet ==
  /\ StoreInit
  /\ RunIdle
  /\ SideIdle
  /\ BATCH_SIZE = MaxBatchSize
  /\ apiKey \in BOOLEAN

NextTestSet ==
  \/ \E source \in TestSetRows, target \in TestSetRows : CreateTestSet(source, target)
  \/ EvaluateTestSetStart
  \/ \E scoring \in UNION {[1..n -> TestSetScores(FullKpis, apiKey)] : n \in 1..(MaxRows + 1)} :
       EvaluateTestSetFinish(scoring)
  \/ EvaluateTestSetFails

SpecTestSet == InitTestSet /\ [][NextTestSet]_vars

\* C23: the joined sequence is in the order of the target rows, the i-th
\* joined record being the i-th target row with the source row of the same
\* key, on the page (validateAndMergeData) and for a test set whose two
\* sides have the same keys (its results are one per joined record).
C23_TargetOrder ==
  [][/\ (ValidateAndMergeData /\ currentPhase' = "KPI_CONFIG") =>
          /\ Len(Val(mergedData')) = Len(Val(targetData))
          /\ \A i \in DOMAIN Val(mergedData') :
               /\ Val(mergedData')[i].target = Val(targetData)[i]
               /\ Val(mergedData')[i].source \in Range(Val(sourceData))
               /\ KeyOf(Val(mergedData')[i].source) = KeyOf(Val(targetData)[i])
     /\ (/\ testSetPc = "running" /\ testSetPc' = "ok"
         /\ KeyParity(Val(testSet).sourceRows, Val(testSet).targetRows)) =>
          MsidsOf(testResults') = KeyColumn(Val(testSet).targetRows)]_vars

\* the MSIDs present in the source rows and in the target rows of a test set
KeysOnBothSides(rows) ==
  Range(KeyColumn(rows.sourceRows)) \cap Range(KeyColumn(rows.targetRows))

\* C30: a test-set evaluation that finishes leaves exactly one stored result
\* per MSID present on both sides and none of an earlier run; a request
\* that starts evaluating, and one that then fails, leave the results of
\* the previous run stored.
C30_ResultsOfTheRun ==
  [][/\ (testSetPc = "running" /\ testSetPc' = "ok") =>
          /\ Range(MsidsOf(testResults')) = KeysOnBothSides(Val(testSet))
          /\ Len(testResults') = Cardinality(KeysOnBothSides(Val(testSet)))
     /\ (testSetPc # "running" /\ testSetPc' = "running") => testResults' = testResults
     /\ (testSetPc = "running" /\ testSetPc' = "failed") => testResults' = testResults]_vars

(***************************************************************************)
(* The bulk run to its end.  runEvaluation of src/unnamed/part_003 with a  *)
(* project selected first creates a test set and has the server evaluate   *)
(* it; when the creation fails it falls back to the loop over the batches. *)
(***************************************************************************)
\* the run of src/unnamed/part_003 with a project, up to its first await,
\* the fetch that creates the test set
RunEvaluationInProject(n) ==
  /\ currentPhase = "KPI_CONFIG"
  /\ runPc = "idle"
  /\ ~IsNull(mergedData) /\ Len(Val(mergedData)) > 0
  /\ LET seen == [i \in 1..4 |-> [id |-> i, configured |-> i <= n]]
     IN /\ kpis' = IF n = 4 THEN seen ELSE SubSeq(seen, 1, n)
        /\ runKpis' = seen
  /\ currentPhase' = "EVALUATING"
  /\ isLoading' = TRUE
  /\ runMerged' = Val(mergedData)
  /\ runPc' = "create"
  /\ UNCHANGED <<batches, batchIndex, allResults>>
  /\ UNCHANGED <<sourceData, targetData, mergedData, evaluationResults, evaluationSummary,
                 dataMismatchLog, validationError>>
  /\ UNCHANGED <<fetchVars, envVars, sideVars>>

\* the fetch of POST /api/projects/[id]/testsets settles.  ok: the test set
\* is stored and its evaluation is requested; otherwise testSetId stays
\* null and the first batch is fetched as without a project
TestSetCreationSettles(ok) ==
  /\ runPc = "create"
  /\ IF ok
     THEN /\ testSet' = Some([sourceRows |-> [i \in DOMAIN runMerged |-> runMerged[i].source],
                              targetRows |-> [i \in DOMAIN runMerged |-> runMerged[i].target],
                              kpis |-> runKpis])
          /\ testResults' = <<>>
          /\ testSetPc' = "idle"
          /\ runPc' = "testset"
          /\ UNCHANGED <<batches, batchIndex, request>>
     ELSE LET made == CreateBatches(runMerged, BATCH_SIZE)
          IN /\ batches' = made
             /\ batchIndex' = 1
             /\ request' = BatchRequest(made, 1, runKpis)
             /\ runPc' = "batch"
             /\ UNCHANGED <<testSet, testResults, testSetPc>>
  /\ isLoading' = TRUE
  /\ UNCHANGED <<sourceData, targetData, mergedData, kpis, evaluationResults,
                 evaluationSummary, currentPhase, dataMismatchLog, validationError>>
  /\ UNCHANGED <<runMerged, runKpis, allResults>>
  /\ UNCHANGED <<settled, inFlight, completionOrder, response, envVars>>
  /\ UNCHANGED <<pendingReevals, queryStats, projectList, testSetView, reevalLines,
                 summaryLog>>

\* the request POST /api/testsets/[id]/evaluate of the run reaches its handler
TestSetRequestArrives ==
  /\ runPc = "testset"
  /\ testSetPc = "idle"
  /\ EvaluateTestSetStart

\* the run leaves runEvaluation: setLoading(false) and setPhase('RESULTS')
RunReturns ==
  /\ isLoading' = FALSE
  /\ currentPhase' = "RESULTS"
  /\ runPc' = "idle"
  /\ runMerged' = <<>>
  /\ runKpis' = <<>>
  /\ batches' = <<>>
  /\ batchIndex' = 0
  /\ allResults' = <<>>

\* the evaluation of the test set that lets a rejected fetch escape: the
\* run stops where it is
TestSetEvaluationSettlesUncaught(outcome) ==
  /\ runPc = "testset"
  /\ testSetPc # "running"
  /\ outcome = "stored" => testSetPc = "ok"
  /\ IF outcome = "stored"
     THEN /\ evaluationResults' = Some(testResults)
          /\ IF Len(testResults) > 0
             THEN /\ runPc' = "summary"
                  /\ allResults' = testResults
                  /\ isLoading' = TRUE
                  /\ UNCHANGED <<currentPhase, runMerged, runKpis, batches, batchIndex>>
             ELSE RunReturns
     ELSE /\ runPc' = "idle"
          /\ UNCHANGED <<evaluationResults, isLoading, currentPhase, runMerged, runKpis,
                         batches, batchIndex, allResults>>
  /\ UNCHANGED <<sourceData, targetData, mergedData, kpis, evaluationSummary,
                 dataMismatchLog, validationError>>
  /\ UNCHANGED <<fetchVars, envVars, sideVars>>

\* the awaited evaluation of the test set settles.  stored: the response and
\* the fetch of the test set with its results are OK, and the results are
\* stored; lost: a fetch rejects or answers with a status that is not OK,
\* and the catch block logs it.  Then the summary is requested when the
\* store holds results, and the run returns otherwise
TestSetEvaluationSettles(outcome) ==
  /\ runPc = "testset"
  /\ testSetPc # "running"
  /\ outcome = "stored" => testSetPc = "ok"
  /\ LET stored == IF outcome = "stored" THEN Some(testResults) ELSE evaluationResults
     IN /\ evaluationResults' = stored
        /\ IF ~IsNull(stored) /\ Len(Val(stored)) > 0
           THEN /\ runPc' = "summary"
                /\ allResults' = Val(stored)
                /\ isLoading' = TRUE
                /\ UNCHANGED <<currentPhase, runMerged, runKpis, batches, batchIndex>>
           ELSE RunReturns
  /\ UNCHANGED <<sourceData, targetData, mergedData, kpis, evaluationSummary,
                 dataMismatchLog, validationError>>
  /\ UNCHANGED <<fetchVars, envVars, sideVars>>

TestSetOutcomes == {"stored", "lost"}

\* the scorings of the records of a test set made by a run
RunScorings ==
  UNION {[1..n -> TestSetScores(FullKpis, apiKey)] : n \in 1..MaxBatchSize}

\* the steps of a bulk run of either page: a batch settles as in
\* src/app/page.tsx (BatchSettles) or as in src/unnamed/part_003
\* (BatchSettlesHub), and the run can be reset while it is under way
NextRun ==
  \/ \E n \in KpiCounts : RunEvaluation(n)
  \/ \E n \in KpiCounts : RunEvaluationInProject(n)
  \/ \E ok \in BOOLEAN : TestSetCreationSettles(ok)
  \/ TestSetRequestArrives
  \/ \E scoring \in RunScorings : EvaluateTestSetFinish(scoring)
  \/ EvaluateTestSetFails
  \/ \E outcome \in TestSetOutcomes : TestSetEvaluationSettles(outcome)
  \/ EvaluateStart
  \/ \E call \in inFlight : \E answer \in Answers(Val(request).kpis) :
       EvaluatorAnswers(call, answer)
  \/ EvaluateRespond
  \/ BatchRequestFails
  \/ BatchSettles
  \/ BatchSettlesHub
  \/ \E ok \in BOOLEAN : SummarySettles(ok)
  \/ HandleReset

\* every request that was sent is answered or rejected, and the
\* continuation of an await runs once its promise has settled
RunFairness ==
  /\ WF_vars(EvaluateStart)
  /\ WF_vars(\E call \in inFlight : \E answer \in Answers(Val(request).kpis) :
               EvaluatorAnswers(call, answer))
  /\ WF_vars(EvaluateRespond)
  /\ WF_vars(BatchSettles)
  /\ WF_vars(BatchSettlesHub)
  /\ WF_vars(\E ok \in BOOLEAN : SummarySettles(ok))
  /\ WF_vars(\E ok \in BOOLEAN : TestSetCreationSettles(ok))
  /\ WF_vars(TestSetRequestArrives)
  /\ WF_vars((\E scoring \in RunScorings : EvaluateTestSetFinish(scoring))
               \/ EvaluateTestSetFails)
  /\ WF_vars(\E outcome \in TestSetOutcomes : TestSetEvaluationSettles(outcome))

\* the page in the KPI wizard with up to MaxBatchSize joined records, in
\* demo mode or with a key
RunKeys == {"A", "B"}

InitRun ==
  /\ \E keys \in SeqsUpTo(RunKeys, MaxBatchSize) \ {<<>>} :
       /\ sourceData = Some(RowsOf(Distinct(keys)))
       /\ targetData = Some(RowsOf(keys))
       /\ mergedData = Some(MergeRows(RowsOf(Distinct(keys)), RowsOf(keys)))
  /\ kpis = EmptyKpis
  /\ evaluationResults = Null
  /\ evaluationSummary = Null
  /\ currentPhase = "KPI_CONFIG"
  /\ isLoading = FALSE
  /\ dataMismatchLog = <<>>
  /\ validationError = Null
  /\ RunIdle
  /\ SideIdle
  /\ BATCH_SIZE \in {1, MaxBatchSize}
  /\ apiKey \in BOOLEAN

SpecRun == InitRun /\ [][NextRun]_vars /\ RunFairness

\* C28: provided every request settles, a bulk run that has put the page in
\* the phase EVALUATING is followed by a state in which the phase is RESULTS
\* or KPI_CONFIG and isLoading is false, whichever of the creation of the
\* test set, the batches and the summary fail.
C28_RunEnds ==
  (currentPhase = "EVALUATING") ~> (currentPhase \in {"RESULTS", "KPI_CONFIG"} /\ ~isLoading)

\* witness of C28: the test set was created, its evaluation failed on the
\* server, and the run has ended in RESULTS with nothing stored
C28_Witness ==
  /\ currentPhase = "RESULTS"
  /\ ~isLoading
  /\ runPc = "idle"
  /\ ~IsNull(testSet)
  /\ testSetPc = "failed"
  /\ IsNull(evaluationResults)
  /\ IsNull(evaluationSummary)

(***************************************************************************)
(* Claims about the phases of the page.                                    *)
(***************************************************************************)
\* C25: the phase follows UPLOAD -> KPI_CONFIG -> EVALUATING -> RESULTS:
\* RESULTS is only entered from EVALUATING, EVALUATING only from KPI_CONFIG
\* with joined data that is not empty, KPI_CONFIG only from UPLOAD by a
\* successful match, and ERROR only from UPLOAD by a step that sets a
\* validation error.
C25_PhaseSequence ==
  [][/\ (currentPhase' = "RESULTS" /\ currentPhase # "RESULTS")
          => currentPhase = "EVALUATING"
     /\ (currentPhase' = "EVALUATING" /\ currentPhase # "EVALUATING")
          => /\ currentPhase = "KPI_CONFIG"
             /\ ~IsNull(mergedData)
             /\ Len(Val(mergedData)) > 0
     /\ (currentPhase' = "KPI_CONFIG" /\ currentPhase # "KPI_CONFIG")
          => /\ currentPhase = "UPLOAD"
             /\ ~IsNull(mergedData')
     /\ (currentPhase' = "ERROR" /\ currentPhase # "ERROR")
          => /\ currentPhase = "UPLOAD"
             /\ ~IsNull(validationError')]_vars

\* C26: after a reset (clearData and the phase UPLOAD), the steps of a bulk
\* run that was in flight do not override it: the phase stays UPLOAD and
\* evaluationResults stays null.
C26_ResetNotOverridden ==
  [][(/\ currentPhase = "UPLOAD"
      /\ IsNull(evaluationResults)
      /\ BatchSettles \/ \E ok \in BOOLEAN : SummarySettles(ok))
       => /\ currentPhase' = "UPLOAD"
          /\ IsNull(evaluationResults')]_vars

\* C29: the phase is ERROR exactly when a validation error is stored.
C29_ErrorIffValidationError ==
  (currentPhase = "ERROR") <=> ~IsNull(validationError)

=============================================================================
